---------------------------- MODULE Spec2Model ----------------------------
(***************************************************************************)
(* A model of the solana-primitives core: the compact-u16 length codec     *)
(* (short_vec.rs), the legacy / v0 wire codec (types/transaction.rs,       *)
(* types/message.rs), the message compiler (builder/transaction.rs), the   *)
(* signer (types/transaction.rs, crypto/mod.rs) and the editing operations *)
(* of a decoded transaction (types/transaction.rs).                        *)
(*                                                                         *)
(* Bytes are integers 0..255, byte strings are sequences of bytes, a       *)
(* Pubkey is a sequence of 32 bytes and a SignatureBytes a sequence of 64. *)
(* Rust's 0-based half-open slices bytes[a..b] are written Slice(bytes,    *)
(* a, b).  A Result is a record with a field ok; an Err carries no value.  *)
(***************************************************************************)
EXTENDS Integers, Sequences, FiniteSets, TLC

VARIABLES
    cu_pc,      \* codec harness: "idle", "ready", "decoded", "encode_err"
    cu_n,       \* the length handed to the encoder, -1 when the input is raw
    cu_enc,     \* the bytes encode_length_to_compact_u16_bytes emitted
    cu_bytes,   \* the slice handed to decode_compact_u16_len
    cu_res,     \* the Result decode_compact_u16_len returned
    wire_pc,    \* wire harness: position in the receive / send pipelines
    wire_in,    \* the byte string B handed to deserialize_with_version
    wire_orig,  \* the transaction value handed to serialize
    wire_tx,    \* the Result of deserialize_with_version
    wire_out,   \* the Result of serialize
    tb_pc,      \* builder harness: "none", "building", "built"
    builder,    \* the TransactionBuilder (fee_payer, instructions, account_metas)
    tb_tx,      \* the Transaction build() returned
    sg_pc,      \* signing harness: "none", "ready", "signed", "verified"
    sg_tx,      \* the Transaction that is signed
    sg_prev,    \* the Transaction before the last call
    sg_call,    \* the last call: its name, its arguments, its Result
    sg_supplied,\* the public keys given to the partial_sign calls that returned Ok
    sg_verify,  \* the Result of verify_transaction
    sg_proper,  \* freshly built, and every partial_sign call gave one signer its own key
    vt_pc,      \* editing harness: "none", "ready", "called", "panicked"
    vt_tx,      \* the VersionedTransaction that is edited
    vt_prev,    \* the VersionedTransaction before the last call
    vt_call,    \* the last call: its name, its arguments, its Result
    pda_pc,     \* PDA harness: "none", "called", "searching", "found", "exhausted",
                \* "rejected", "panicked", "created"
    pda_call,   \* the implementation called and its arguments (program_id, seeds)
    pda_bump,   \* the bump the search loop is at
    pda_input,  \* the bytes hashed last
    pda_digest, \* the SHA-256 digest of pda_input
    pda_evals,  \* the number of hash evaluations of the search so far
    pda_skipped,\* a candidate the search passed over was off the curve
    pda_res,    \* the Result of find_program_address
    pda_create, \* the Result of create_program_address
    rx_pc,      \* legacy receive harness: "none", "idle", "received", "decoded"
    rx_in,      \* the byte string handed to the deserializer
    rx_call,    \* the deserializer called: "Transaction" or "VersionedTransaction"
    rx_tx,      \* the Result of deserialize_with_version
    rx_allocs   \* the Vec::with_capacity calls the deserializer made

cu_vars   == <<cu_pc, cu_n, cu_enc, cu_bytes, cu_res>>
wire_vars == <<wire_pc, wire_in, wire_orig, wire_tx, wire_out>>
tb_vars   == <<tb_pc, builder, tb_tx>>
sg_vars   == <<sg_pc, sg_tx, sg_prev, sg_call, sg_supplied, sg_verify, sg_proper>>
vt_vars   == <<vt_pc, vt_tx, vt_prev, vt_call>>
pda_vars  == <<pda_pc, pda_call, pda_bump, pda_input, pda_digest, pda_evals,
               pda_skipped, pda_res, pda_create>>
rx_vars   == <<rx_pc, rx_in, rx_call, rx_tx, rx_allocs>>
vars      == <<cu_vars, wire_vars, tb_vars, sg_vars, vt_vars, pda_vars, rx_vars>>

(***************************************************************************)
(* Program constants                                                       *)
(***************************************************************************)
U16_MAX == 65535
PUBKEY_BYTES == 32
SIGNATURE_BYTES == 64
HASH_BYTES == 32
MAX_COMPACT_LEN == 3

\* bytes[from..to] of Rust: 0-based, half-open
Slice(bytes, from, to) == SubSeq(bytes, from + 1, to)

\* Result values
Err == [ok |-> FALSE]

(***************************************************************************)
(* short_vec.rs: the Compact-U16 helpers used for every wire length prefix *)
(***************************************************************************)

\* The encoder's loop: emit the low 7 bits, set the MSB while more remain.
RECURSIVE EncodeLoop(_)
EncodeLoop(rem_val) ==
    LET elem == rem_val % 128
        rest == rem_val \div 128
    IN  IF rest = 0 THEN <<elem>>
        ELSE <<elem + 128>> \o EncodeLoop(rest)

encode_length_to_compact_u16_bytes(len) ==
    IF len > U16_MAX THEN Err
    ELSE [ok |-> TRUE, bytes |-> EncodeLoop(len)]

\* A decoder that shifts by whole bytes instead of 7 bits.
Shl8(k) == 256 ^ k

\* 1 << (7 * k)
Shl7(k) == 128 ^ k

\* The decoder's loop.  len |= (byte & 0x7F) << (size * 7) adds, because len only
\* holds bits below 7 * size.  No check of a zero continuation byte and no check of
\* the accumulated value against u16::MAX is made (the final check is empty).
RECURSIVE DecodeLoop(_, _, _)
DecodeLoop(bytes, len, size_of_len_encoding) ==
    IF size_of_len_encoding >= Len(bytes) THEN Err
    ELSE LET current_byte == bytes[size_of_len_encoding + 1]
             len2  == len + (current_byte % 128) * Shl7(size_of_len_encoding)
             size2 == size_of_len_encoding + 1
         IN  IF current_byte < 128
             THEN [ok |-> TRUE, len |-> len2, used |-> size2]
             ELSE IF size2 >= MAX_COMPACT_LEN THEN Err
             ELSE DecodeLoop(bytes, len2, size2)

decode_compact_u16_len(bytes) ==
    IF Len(bytes) = 0 THEN Err
    ELSE DecodeLoop(bytes, 0, 0)

(***************************************************************************)
(* types/transaction.rs, mod manual_decode: the wire decoder               *)
(***************************************************************************)

\* One pass of the instruction loop of decode_legacy_message (decode_v0_message
\* repeats the same statements at lines 835-892): the instruction read at offset
\* and the offset behind it.
DecodeInstruction(bytes, offset) ==
    IF offset >= Len(bytes) THEN Err
    ELSE
    LET program_id_index == bytes[offset + 1]
        o1 == offset + 1
        ac == IF o1 >= Len(bytes) THEN Err
              ELSE decode_compact_u16_len(Slice(bytes, o1, Len(bytes)))
    IN  IF ~ac.ok THEN Err
        ELSE IF o1 + ac.used + ac.len > Len(bytes) THEN Err
        ELSE
        LET o2 == o1 + ac.used
            o3 == o2 + ac.len
            dl == IF o3 >= Len(bytes) THEN Err
                  ELSE decode_compact_u16_len(Slice(bytes, o3, Len(bytes)))
        IN  IF ~dl.ok THEN Err
            ELSE IF o3 + dl.used + dl.len > Len(bytes) THEN Err
            ELSE [ok |-> TRUE,
                  offset |-> o3 + dl.used + dl.len,
                  ix |-> [program_id_index |-> program_id_index,
                          accounts |-> Slice(bytes, o2, o3),
                          data |-> Slice(bytes, o3 + dl.used, o3 + dl.used + dl.len)]]

\* `for _ in 0..instruction_count`
RECURSIVE DecodeInstructions(_, _, _, _)
DecodeInstructions(bytes, offset, remaining, instructions) ==
    IF remaining = 0
    THEN [ok |-> TRUE, offset |-> offset, instructions |-> instructions]
    ELSE LET one == DecodeInstruction(bytes, offset)
         IN  IF ~one.ok THEN Err
             ELSE DecodeInstructions(bytes, one.offset, remaining - 1,
                                     Append(instructions, one.ix))

\* decode_legacy_message up to the end of the instruction list: header, account keys,
\* recent blockhash, instructions.  (decode_v0_message repeats the same statements
\* at lines 775-892.)  Returns the fields and the offset reached.
DecodeBody(bytes) ==
    IF Len(bytes) < 3 THEN Err
    ELSE
    LET header == [num_required_signatures |-> bytes[1],
                   num_readonly_signed_accounts |-> bytes[2],
                   num_readonly_unsigned_accounts |-> bytes[3]]
    IN  IF 3 >= Len(bytes) THEN Err
        ELSE
        LET kc == decode_compact_u16_len(Slice(bytes, 3, Len(bytes)))
        IN  IF ~kc.ok THEN Err
            ELSE
            LET o1 == 3 + kc.used
            IN  IF o1 + kc.len * PUBKEY_BYTES > Len(bytes) THEN Err
                ELSE
                LET account_keys ==
                        [i \in 1..kc.len |->
                            Slice(bytes, o1 + PUBKEY_BYTES * (i - 1), o1 + PUBKEY_BYTES * i)]
                    o2 == o1 + PUBKEY_BYTES * kc.len
                IN  IF o2 + HASH_BYTES > Len(bytes) THEN Err
                    ELSE
                    LET recent_blockhash == Slice(bytes, o2, o2 + HASH_BYTES)
                        o3 == o2 + HASH_BYTES
                    IN  IF o3 >= Len(bytes) THEN Err
                        ELSE
                        LET ic == decode_compact_u16_len(Slice(bytes, o3, Len(bytes)))
                        IN  IF ~ic.ok THEN Err
                            ELSE
                            LET ixs == DecodeInstructions(bytes, o3 + ic.used, ic.len, <<>>)
                            IN  IF ~ixs.ok THEN Err
                                ELSE [ok |-> TRUE,
                                      offset |-> ixs.offset,
                                      message |-> [header |-> header,
                                                   account_keys |-> account_keys,
                                                   recent_blockhash |-> recent_blockhash,
                                                   instructions |-> ixs.instructions]]

\* Bytes after the last instruction are not looked at.
decode_legacy_message(bytes, signatures) ==
    LET body == DecodeBody(bytes)
    IN  IF ~body.ok THEN Err
        ELSE [ok |-> TRUE,
              tx |-> [variant |-> "Legacy",
                      signatures |-> signatures,
                      message |-> body.message]]

\* One pass of the address-table-lookup loop of decode_v0_message.
DecodeLookup(bytes, offset) ==
    IF offset + PUBKEY_BYTES > Len(bytes) THEN Err
    ELSE
    LET o1 == offset + PUBKEY_BYTES
        wc == IF o1 >= Len(bytes) THEN Err
              ELSE decode_compact_u16_len(Slice(bytes, o1, Len(bytes)))
    IN  IF ~wc.ok THEN Err
        ELSE IF o1 + wc.used + wc.len > Len(bytes) THEN Err
        ELSE
        LET o2 == o1 + wc.used
            o3 == o2 + wc.len
            rc == IF o3 >= Len(bytes) THEN Err
                  ELSE decode_compact_u16_len(Slice(bytes, o3, Len(bytes)))
        IN  IF ~rc.ok THEN Err
            ELSE IF o3 + rc.used + rc.len > Len(bytes) THEN Err
            ELSE [ok |-> TRUE,
                  offset |-> o3 + rc.used + rc.len,
                  lookup |-> [account_key |-> Slice(bytes, offset, o1),
                              writable_indexes |-> Slice(bytes, o2, o3),
                              readonly_indexes |->
                                  Slice(bytes, o3 + rc.used, o3 + rc.used + rc.len)]]

\* `for _ in 0..lookup_table_count`
RECURSIVE DecodeLookups(_, _, _, _)
DecodeLookups(bytes, offset, remaining, lookups) ==
    IF remaining = 0
    THEN [ok |-> TRUE, offset |-> offset, lookups |-> lookups]
    ELSE LET one == DecodeLookup(bytes, offset)
         IN  IF ~one.ok THEN Err
             ELSE DecodeLookups(bytes, one.offset, remaining - 1,
                                Append(lookups, one.lookup))

\* decode_v0_message behind the instruction list (lines 894-975); body is what the
\* statements shared with decode_legacy_message have read.  The lookup count is read
\* only when bytes remain after the instructions.
DecodeV0Lookups(bytes, signatures, body) ==
    IF ~body.ok THEN Err
    ELSE
    LET lc == IF body.offset < Len(bytes)
              THEN decode_compact_u16_len(Slice(bytes, body.offset, Len(bytes)))
              ELSE [ok |-> TRUE, len |-> 0, used |-> 0]
    IN  IF ~lc.ok THEN Err
        ELSE
        LET ls == DecodeLookups(bytes, body.offset + lc.used, lc.len, <<>>)
        IN  IF ~ls.ok THEN Err
            ELSE [ok |-> TRUE,
                  tx |-> [variant |-> "V0",
                          signatures |-> signatures,
                          message |-> [header |-> body.message.header,
                                       account_keys |-> body.message.account_keys,
                                       recent_blockhash |-> body.message.recent_blockhash,
                                       instructions |-> body.message.instructions,
                                       address_table_lookups |-> ls.lookups]]]

decode_v0_message(bytes, signatures) ==
    DecodeV0Lookups(bytes, signatures, DecodeBody(bytes))

\* A decode_message that takes every set high bit for v0.
decode_message_any_version(bytes, signatures) ==
    IF Len(bytes) < 3 THEN Err
    ELSE IF bytes[1] >= 128 THEN decode_v0_message(Slice(bytes, 1, Len(bytes)), signatures)
    ELSE decode_legacy_message(bytes, signatures)

decode_message(bytes, signatures) ==
    IF Len(bytes) < 3 THEN Err
    ELSE
    LET is_versioned == bytes[1] >= 128
        version == bytes[1] % 128
    IN  IF is_versioned
        THEN IF version = 0
             THEN decode_v0_message(Slice(bytes, 1, Len(bytes)), signatures)
             ELSE Err
        ELSE decode_legacy_message(bytes, signatures)

\* The signature prefix shared by both deserialize_with_version functions.
DecodeSignatures(bytes) ==
    IF Len(bytes) = 0 THEN Err
    ELSE
    LET sc == decode_compact_u16_len(bytes)
    IN  IF ~sc.ok THEN Err
        ELSE IF Len(bytes) < sc.used + sc.len * SIGNATURE_BYTES THEN Err
        ELSE [ok |-> TRUE,
              signatures |->
                  [i \in 1..sc.len |->
                      Slice(bytes, sc.used + SIGNATURE_BYTES * (i - 1),
                                   sc.used + SIGNATURE_BYTES * i)],
              offset |-> sc.used + SIGNATURE_BYTES * sc.len]

VersionedTransaction_deserialize_with_version(bytes) ==
    LET sigs == DecodeSignatures(bytes)
    IN  IF ~sigs.ok THEN Err
        ELSE decode_message(Slice(bytes, sigs.offset, Len(bytes)), sigs.signatures)

\* Transaction::deserialize_with_version behind the signatures: the message
\* region goes to decode_legacy_message as it is, and the fields of the legacy
\* message it returns become the Transaction.
TransactionFromLegacy(signatures, decoded) ==
    IF ~decoded.ok THEN Err
    ELSE [ok |-> TRUE,
          tx |-> [signatures |-> signatures, message |-> decoded.tx.message]]

Transaction_deserialize_with_version(bytes) ==
    IF ~DecodeSignatures(bytes).ok THEN Err
    ELSE TransactionFromLegacy(
             DecodeSignatures(bytes).signatures,
             decode_legacy_message(
                 Slice(bytes, DecodeSignatures(bytes).offset, Len(bytes)), <<>>))

(***************************************************************************)
(* The collections the decoder allocates with a capacity: each record is   *)
(* the collection, the capacity asked for and the number of input bytes    *)
(* not yet consumed when Vec::with_capacity or Vec::new is called.         *)
(***************************************************************************)
Allocation(collection, capacity, remaining) ==
    [collection |-> collection, capacity |-> capacity, remaining |-> remaining]

\* Vec::with_capacity(num_signatures), behind the length check.
SignatureAllocations(bytes, sc) ==
    IF ~sc.ok THEN <<>>
    ELSE IF Len(bytes) < sc.used + sc.len * SIGNATURE_BYTES THEN <<>>
    ELSE <<Allocation("signatures", sc.len, Len(bytes) - sc.used)>>

\* Vec::with_capacity(instruction_count): nothing stands between the decoding of
\* the count and the allocation.
InstructionAllocations(bytes, offset, ic) ==
    IF ~ic.ok THEN <<>>
    ELSE <<Allocation("instructions", ic.len, Len(bytes) - (offset + ic.used))>>

\* Vec::with_capacity(account_count), behind the length check, then the recent
\* blockhash and the instruction count.
AccountKeyAllocations(bytes, kc) ==
    IF ~kc.ok THEN <<>>
    ELSE IF 3 + kc.used + kc.len * PUBKEY_BYTES > Len(bytes) THEN <<>>
    ELSE <<Allocation("account_keys", kc.len, Len(bytes) - (3 + kc.used))>>
         \o (IF 3 + kc.used + kc.len * PUBKEY_BYTES + HASH_BYTES >= Len(bytes)
             THEN <<>>
             ELSE InstructionAllocations(
                      bytes, 3 + kc.used + kc.len * PUBKEY_BYTES + HASH_BYTES,
                      decode_compact_u16_len(
                          Slice(bytes, 3 + kc.used + kc.len * PUBKEY_BYTES + HASH_BYTES,
                                Len(bytes)))))

\* The allocations of decode_legacy_message, and of decode_v0_message up to the
\* instructions.
BodyAllocations(bytes) ==
    IF Len(bytes) <= 3 THEN <<>>
    ELSE AccountKeyAllocations(bytes, decode_compact_u16_len(Slice(bytes, 3, Len(bytes))))

\* decode_v0_message: the lookup records are collected in a Vec::new().
V0Allocations(bytes, body) ==
    BodyAllocations(bytes)
    \o (IF body.ok
        THEN <<Allocation("address_table_lookups", 0, Len(bytes) - body.offset)>>
        ELSE <<>>)

\* decode_message
MessageAllocations(bytes) ==
    IF Len(bytes) < 3 THEN <<>>
    ELSE IF bytes[1] >= 128
    THEN IF bytes[1] % 128 = 0
         THEN V0Allocations(Slice(bytes, 1, Len(bytes)),
                            DecodeBody(Slice(bytes, 1, Len(bytes))))
         ELSE <<>>
    ELSE BodyAllocations(bytes)

\* Every allocation of VersionedTransaction::deserialize_with_version (versioned)
\* or of Transaction::deserialize_with_version.
Allocations(bytes, versioned) ==
    IF Len(bytes) = 0 THEN <<>>
    ELSE SignatureAllocations(bytes, decode_compact_u16_len(bytes))
         \o (IF ~DecodeSignatures(bytes).ok THEN <<>>
             ELSE IF versioned
             THEN MessageAllocations(
                      Slice(bytes, DecodeSignatures(bytes).offset, Len(bytes)))
             ELSE BodyAllocations(
                      Slice(bytes, DecodeSignatures(bytes).offset, Len(bytes))))

(***************************************************************************)
(* types/message.rs, types/transaction.rs: the wire serializer             *)
(***************************************************************************)

RECURSIVE Concat(_)
Concat(byte_strings) ==
    IF Len(byte_strings) = 0 THEN <<>>
    ELSE Head(byte_strings) \o Concat(Tail(byte_strings))

\* An instruction serializer that writes each length as one u8 (the historical form).
SerializeInstructionU8Len(ix) ==
    [ok |-> TRUE,
     bytes |-> <<ix.program_id_index>> \o <<Len(ix.accounts) % 256>> \o ix.accounts
               \o <<Len(ix.data) % 256>> \o ix.data]

\* One instruction of Message::serialize_for_signing: program_id_index, the account
\* indices and the data, each of the two behind its Compact-U16 length.
SerializeInstruction(ix) ==
    LET a == encode_length_to_compact_u16_bytes(Len(ix.accounts))
        d == encode_length_to_compact_u16_bytes(Len(ix.data))
    IN  IF ~a.ok \/ ~d.ok THEN Err
        ELSE [ok |-> TRUE,
              bytes |-> <<ix.program_id_index>> \o a.bytes \o ix.accounts
                        \o d.bytes \o ix.data]

Message_serialize_for_signing(message) ==
    LET k == encode_length_to_compact_u16_bytes(Len(message.account_keys))
        n == encode_length_to_compact_u16_bytes(Len(message.instructions))
        parts == [j \in 1..Len(message.instructions) |->
                     SerializeInstruction(message.instructions[j])]
    IN  IF ~k.ok \/ ~n.ok \/ (\E j \in 1..Len(parts) : ~parts[j].ok) THEN Err
        ELSE [ok |-> TRUE,
              bytes |-> <<message.header.num_required_signatures,
                          message.header.num_readonly_signed_accounts,
                          message.header.num_readonly_unsigned_accounts>>
                        \o k.bytes
                        \o Concat(message.account_keys)
                        \o message.recent_blockhash
                        \o n.bytes
                        \o Concat([j \in 1..Len(parts) |-> parts[j].bytes])]

\* LegacyMessage::serialize_for_signing: the legacy message layout of spec 4.E, which
\* is the layout Message::serialize_for_signing writes.
LegacyMessage_serialize_for_signing(message) ==
    Message_serialize_for_signing(message)

\* One address-table lookup record of spec 4.E.
SerializeLookup(lookup) ==
    LET w == encode_length_to_compact_u16_bytes(Len(lookup.writable_indexes))
        r == encode_length_to_compact_u16_bytes(Len(lookup.readonly_indexes))
    IN  IF ~w.ok \/ ~r.ok THEN Err
        ELSE [ok |-> TRUE,
              bytes |-> lookup.account_key \o w.bytes \o lookup.writable_indexes
                        \o r.bytes \o lookup.readonly_indexes]

\* VersionedMessageV0::serialize_for_signing: the version byte 0x80, the
\* legacy-shaped prefix, then CI16(n_lookups) and the lookup records (spec 4.E).
VersionedMessageV0_serialize_for_signing(message) ==
    LET body == Message_serialize_for_signing(message)
        c == encode_length_to_compact_u16_bytes(Len(message.address_table_lookups))
        parts == [j \in 1..Len(message.address_table_lookups) |->
                     SerializeLookup(message.address_table_lookups[j])]
    IN  IF ~body.ok \/ ~c.ok \/ (\E j \in 1..Len(parts) : ~parts[j].ok) THEN Err
        ELSE [ok |-> TRUE,
              bytes |-> <<128>> \o body.bytes \o c.bytes
                        \o Concat([j \in 1..Len(parts) |-> parts[j].bytes])]

VersionedTransaction_serialize_message(tx) ==
    IF tx.variant = "Legacy"
    THEN LegacyMessage_serialize_for_signing(tx.message)
    ELSE VersionedMessageV0_serialize_for_signing(tx.message)

VersionedTransaction_serialize(tx) ==
    LET sig_len == encode_length_to_compact_u16_bytes(Len(tx.signatures))
        message_bytes == VersionedTransaction_serialize_message(tx)
    IN  IF ~sig_len.ok \/ ~message_bytes.ok THEN Err
        ELSE [ok |-> TRUE,
              bytes |-> sig_len.bytes \o Concat(tx.signatures) \o message_bytes.bytes]

Transaction_serialize_legacy(tx) ==
    LET sig_len == encode_length_to_compact_u16_bytes(Len(tx.signatures))
        serialized_message == Message_serialize_for_signing(tx.message)
    IN  IF ~sig_len.ok \/ ~serialized_message.ok THEN Err
        ELSE [ok |-> TRUE,
              bytes |-> sig_len.bytes \o Concat(tx.signatures)
                        \o serialized_message.bytes]

(***************************************************************************)
(* builder/transaction.rs: the message compiler                            *)
(***************************************************************************)

\* Pubkey's Ord: lexicographic on the 32 bytes.
RECURSIVE BytesLess(_, _, _)
BytesLess(a, b, i) ==
    IF i > Len(a) \/ i > Len(b) THEN Len(a) < Len(b)
    ELSE IF a[i] # b[i] THEN a[i] < b[i]
    ELSE BytesLess(a, b, i + 1)

Pubkey_lt(a, b) == BytesLess(a, b, 1)

\* Vec::sort of pubkeys: insert each element of the input, in order, into a sorted
\* result (the result of a sort of distinct keys does not depend on the algorithm).
RECURSIVE InsertSorted(_, _)
InsertSorted(sorted, key) ==
    IF Len(sorted) = 0 THEN <<key>>
    ELSE IF Pubkey_lt(key, Head(sorted)) THEN <<key>> \o sorted
    ELSE <<Head(sorted)>> \o InsertSorted(Tail(sorted), key)

RECURSIVE SortFrom(_, _)
SortFrom(keys, sorted) ==
    IF Len(keys) = 0 THEN sorted
    ELSE SortFrom(Tail(keys), InsertSorted(sorted, Head(keys)))

\* A sort that leaves the bucket in the order the map was iterated.
NoSort(keys) == keys

Sort(keys) == SortFrom(keys, <<>>)

\* TransactionBuilder::new: the fee payer is a writable signer.
TransactionBuilder_new(fee_payer, recent_blockhash) ==
    [fee_payer |-> fee_payer,
     instructions |-> <<>>,
     recent_blockhash |-> recent_blockhash,
     account_metas |->
         [k \in {fee_payer} |->
             [pubkey |-> fee_payer, is_signer |-> TRUE, is_writable |-> TRUE]]]

\* A merge in which the last use of an address overwrites its flags.
MergeMetaOverwrite(account_metas, meta) ==
    [k \in DOMAIN account_metas \cup {meta.pubkey} |->
        IF k = meta.pubkey THEN meta ELSE account_metas[k]]

\* entry(key).and_modify(OR the flags).or_insert(meta)
MergeMeta(account_metas, meta) ==
    IF meta.pubkey \in DOMAIN account_metas
    THEN [account_metas EXCEPT
            ![meta.pubkey] =
                [pubkey |-> @.pubkey,
                 is_signer |-> @.is_signer \/ meta.is_signer,
                 is_writable |-> @.is_writable \/ meta.is_writable]]
    ELSE [k \in DOMAIN account_metas \cup {meta.pubkey} |->
            IF k = meta.pubkey THEN meta ELSE account_metas[k]]

\* entry(program_id).or_insert(non-signer, readonly)
InsertProgramId(account_metas, program_id) ==
    IF program_id \in DOMAIN account_metas THEN account_metas
    ELSE [k \in DOMAIN account_metas \cup {program_id} |->
            IF k = program_id
            THEN [pubkey |-> program_id, is_signer |-> FALSE, is_writable |-> FALSE]
            ELSE account_metas[k]]

RECURSIVE MergeAll(_, _)
MergeAll(account_metas, accounts) ==
    IF Len(accounts) = 0 THEN account_metas
    ELSE MergeAll(MergeMeta(account_metas, Head(accounts)), Tail(accounts))

TransactionBuilder_add_instruction(b, instruction) ==
    [b EXCEPT
        !.account_metas = MergeAll(InsertProgramId(@, instruction.program_id),
                                   instruction.accounts),
        !.instructions = Append(@, instruction)]

\* An index that counts the keys from 1.
IndexOfOneBased(keys, key) ==
    (CHOOSE i \in 1..Len(keys) : keys[i] = key) % 256

\* position of key in keys, 0-based, as u8
IndexOf(keys, key) ==
    ((CHOOSE i \in 1..Len(keys) : keys[i] = key) - 1) % 256

\* `for key in bucket { if processed_keys.insert(key) { final.push(key) } }`
RECURSIVE PushNew(_, _)
PushNew(final_account_keys, bucket) ==
    IF Len(bucket) = 0 THEN final_account_keys
    ELSE PushNew(
           IF \E i \in 1..Len(final_account_keys) : final_account_keys[i] = Head(bucket)
           THEN final_account_keys
           ELSE Append(final_account_keys, Head(bucket)),
           Tail(bucket))

\* The categorisation loop over account_metas and the sort of one category:
\* the keys other than the fee payer whose merged flags are (is_signer, is_writable),
\* collected in the map's iteration order, then sorted.
Bucket(b, iteration, is_signer, is_writable) ==
    Sort(SelectSeq(iteration,
                   LAMBDA k : /\ k # b.fee_payer
                              /\ b.account_metas[k].is_signer = is_signer
                              /\ b.account_metas[k].is_writable = is_writable))

\* A layout that puts the readonly signers before the writable signers.
ConcatBucketsSwapped(fee_payer, w_signers, r_signers, w_non_signers, r_non_signers) ==
    PushNew(PushNew(PushNew(PushNew(<<fee_payer>>, r_signers), w_signers),
                    w_non_signers),
            r_non_signers)

\* Fee payer first, then the four categories in order, skipping processed keys.
ConcatBuckets(fee_payer, w_signers, r_signers, w_non_signers, r_non_signers) ==
    PushNew(PushNew(PushNew(PushNew(<<fee_payer>>, w_signers), r_signers),
                    w_non_signers),
            r_non_signers)

\* A header whose third count takes every readonly key, signer or not.
BuildHeaderReadonlyAll(account_metas) ==
    [num_required_signatures |->
         Cardinality({k \in DOMAIN account_metas : account_metas[k].is_signer}) % 256,
     num_readonly_signed_accounts |->
         Cardinality({k \in DOMAIN account_metas :
                         account_metas[k].is_signer /\ ~account_metas[k].is_writable}) % 256,
     num_readonly_unsigned_accounts |->
         Cardinality({k \in DOMAIN account_metas : ~account_metas[k].is_writable}) % 256]

\* The three header counts, each a filter().count() as u8 over account_metas.
BuildHeader(account_metas) ==
    [num_required_signatures |->
         Cardinality({k \in DOMAIN account_metas : account_metas[k].is_signer}) % 256,
     num_readonly_signed_accounts |->
         Cardinality({k \in DOMAIN account_metas :
                         account_metas[k].is_signer /\ ~account_metas[k].is_writable}) % 256,
     num_readonly_unsigned_accounts |->
         Cardinality({k \in DOMAIN account_metas :
                         ~account_metas[k].is_signer /\ ~account_metas[k].is_writable}) % 256]

\* TransactionBuilder::build.  iteration is the order in which the HashMap yields its
\* keys: a sequence holding every key of account_metas once.
TransactionBuilder_build(b, iteration) ==
    LET account_keys ==
            ConcatBuckets(b.fee_payer,
                          Bucket(b, iteration, TRUE, TRUE),
                          Bucket(b, iteration, TRUE, FALSE),
                          Bucket(b, iteration, FALSE, TRUE),
                          Bucket(b, iteration, FALSE, FALSE))
        compiled_instructions ==
            [j \in 1..Len(b.instructions) |->
                [program_id_index |-> IndexOf(account_keys, b.instructions[j].program_id),
                 accounts |->
                     [a \in 1..Len(b.instructions[j].accounts) |->
                         IndexOf(account_keys, b.instructions[j].accounts[a].pubkey)],
                 data |-> b.instructions[j].data]]
        header == BuildHeader(b.account_metas)
    IN  [signatures |->
             [i \in 1..header.num_required_signatures |->
                 [x \in 1..SIGNATURE_BYTES |-> 0]],
         message |->
             [header |-> header,
              account_keys |-> account_keys,
              recent_blockhash |-> b.recent_blockhash,
              instructions |-> compiled_instructions]]

(***************************************************************************)
(* types/transaction.rs: VersionedTransaction::add_instruction             *)
(***************************************************************************)

\* slice.contains(&key)
Contains(keys, key) == \E i \in 1..Len(keys) : keys[i] = key

\* iter().position(|k| *k == key): the 0-based index of the first match, -1 for None
Position(keys, key) ==
    IF Contains(keys, key)
    THEN (CHOOSE i \in 1..Len(keys) :
              /\ keys[i] = key
              /\ \A j \in 1..(i - 1) : keys[j] # key) - 1
    ELSE -1

\* A collection loop that only looks at account_keys, not at the two new lists.
RECURSIVE CollectNewNoDedup(_, _, _, _)
CollectNewNoDedup(account_keys, accounts, new_writable, new_readonly) ==
    IF Len(accounts) = 0
    THEN [new_writable_non_signers |-> new_writable,
          new_readonly_non_signers |-> new_readonly]
    ELSE IF Contains(account_keys, Head(accounts).pubkey)
    THEN CollectNewNoDedup(account_keys, Tail(accounts), new_writable, new_readonly)
    ELSE IF Head(accounts).is_writable /\ ~Head(accounts).is_signer
    THEN CollectNewNoDedup(account_keys, Tail(accounts),
                           Append(new_writable, Head(accounts).pubkey), new_readonly)
    ELSE IF ~Head(accounts).is_signer
    THEN CollectNewNoDedup(account_keys, Tail(accounts), new_writable,
                           Append(new_readonly, Head(accounts).pubkey))
    ELSE CollectNewNoDedup(account_keys, Tail(accounts), new_writable, new_readonly)

\* `for meta in &instruction.accounts`: an address in none of the three lists goes to
\* the writable list when writable and not a signer, to the readonly list when not a
\* signer, and to no list when it is a signer.
RECURSIVE CollectNew(_, _, _, _)
CollectNew(account_keys, accounts, new_writable, new_readonly) ==
    IF Len(accounts) = 0
    THEN [new_writable_non_signers |-> new_writable,
          new_readonly_non_signers |-> new_readonly]
    ELSE IF \/ Contains(account_keys, Head(accounts).pubkey)
            \/ Contains(new_writable, Head(accounts).pubkey)
            \/ Contains(new_readonly, Head(accounts).pubkey)
    THEN CollectNew(account_keys, Tail(accounts), new_writable, new_readonly)
    ELSE IF Head(accounts).is_writable /\ ~Head(accounts).is_signer
    THEN CollectNew(account_keys, Tail(accounts),
                    Append(new_writable, Head(accounts).pubkey), new_readonly)
    ELSE IF ~Head(accounts).is_signer
    THEN CollectNew(account_keys, Tail(accounts), new_writable,
                    Append(new_readonly, Head(accounts).pubkey))
    ELSE CollectNew(account_keys, Tail(accounts), new_writable, new_readonly)

\* An index update that leaves every index where it was.
ShiftIndexNone(index, insert_pos, num_inserted) == index

\* `if index >= insert_pos { index += num_inserted as u8 }`
ShiftIndex(index, insert_pos, num_inserted) ==
    IF index >= insert_pos THEN (index + num_inserted) % 256 ELSE index

ShiftInstruction(ix, insert_pos, num_inserted) ==
    [program_id_index |-> ShiftIndex(ix.program_id_index, insert_pos, num_inserted),
     accounts |-> [a \in 1..Len(ix.accounts) |->
                      ShiftIndex(ix.accounts[a], insert_pos, num_inserted)],
     data |-> ix.data]

\* An insertion that puts the new keys at the end of the table.
InsertAtEnd(keys, insert_pos, new_keys) == keys \o new_keys

\* Vec::insert(insert_pos + i, key) for each new key in turn
InsertAt(keys, insert_pos, new_keys) ==
    SubSeq(keys, 1, insert_pos) \o new_keys \o SubSeq(keys, insert_pos + 1, Len(keys))

\* The message after the key table, the existing indices and the header have been
\* updated (lines 454-477), before the new instruction is compiled.
AddInstructionKeys(message, new) ==
    [header |->
         [message.header EXCEPT
             !.num_readonly_unsigned_accounts =
                 (@ + Len(new.new_readonly_non_signers)) % 256],
     account_keys |->
         InsertAt(message.account_keys,
                  Len(message.account_keys)
                      - message.header.num_readonly_unsigned_accounts,
                  new.new_writable_non_signers)
         \o new.new_readonly_non_signers,
     recent_blockhash |-> message.recent_blockhash,
     instructions |->
         [j \in 1..Len(message.instructions) |->
             ShiftInstruction(message.instructions[j],
                              Len(message.account_keys)
                                  - message.header.num_readonly_unsigned_accounts,
                              Len(new.new_writable_non_signers))]]

\* An add_instruction that drops the signatures when it changes the message.
AddInstructionCompileClearSignatures(tx, message, instruction) ==
    IF \E a \in 1..Len(instruction.accounts) :
           Position(message.account_keys, instruction.accounts[a].pubkey) = -1
    THEN [ok |-> FALSE, panic |-> TRUE, tx |-> [tx EXCEPT !.message = message]]
    ELSE [ok |-> TRUE, panic |-> FALSE,
          tx |-> [tx EXCEPT
                     !.signatures = <<>>,
                     !.message =
                         [message EXCEPT
                             !.instructions =
                                 Append(@,
                                     [program_id_index |->
                                          Position(message.account_keys,
                                                   instruction.program_id) % 256,
                                      accounts |->
                                          [a \in 1..Len(instruction.accounts) |->
                                              Position(message.account_keys,
                                                       instruction.accounts[a].pubkey)
                                                  % 256],
                                      data |-> instruction.data])]]]

\* Lines 479-500: position(..).unwrap() of the program id and of every account, then
\* the push of the compiled instruction.  unwrap() of None panics.
AddInstructionCompile(tx, message, instruction) ==
    IF \E a \in 1..Len(instruction.accounts) :
           Position(message.account_keys, instruction.accounts[a].pubkey) = -1
    THEN [ok |-> FALSE, panic |-> TRUE, tx |-> [tx EXCEPT !.message = message]]
    ELSE [ok |-> TRUE, panic |-> FALSE,
          tx |-> [tx EXCEPT
                     !.message =
                         [message EXCEPT
                             !.instructions =
                                 Append(@,
                                     [program_id_index |->
                                          Position(message.account_keys,
                                                   instruction.program_id) % 256,
                                      accounts |->
                                          [a \in 1..Len(instruction.accounts) |->
                                              Position(message.account_keys,
                                                       instruction.accounts[a].pubkey)
                                                  % 256],
                                      data |-> instruction.data])]]]

\* VersionedTransaction::add_instruction.  The result is Ok, an Err (ok and panic both
\* false) or a panic; tx is the transaction the call leaves behind.  A header whose
\* num_readonly_unsigned_accounts exceeds the table length makes the subtraction at
\* line 454 overflow.
VersionedTransaction_add_instruction(tx, instruction) ==
    IF tx.variant # "Legacy" THEN [ok |-> FALSE, panic |-> FALSE, tx |-> tx]
    ELSE IF tx.message.header.num_readonly_unsigned_accounts > Len(tx.message.account_keys)
    THEN [ok |-> FALSE, panic |-> TRUE, tx |-> tx]
    ELSE AddInstructionCompile(
             tx,
             AddInstructionKeys(
                 tx.message,
                 CollectNew(tx.message.account_keys, instruction.accounts, <<>>,
                            IF Contains(tx.message.account_keys, instruction.program_id)
                            THEN <<>> ELSE <<instruction.program_id>>)),
             instruction)

(***************************************************************************)
(* types/transaction.rs: the compute-budget inspector.  A u64 is held as   *)
(* four 16-bit limbs, least significant first, a u32 as two.               *)
(***************************************************************************)
COMPUTE_UNIT_PRICE_LEN == 9
COMPUTE_UNIT_PRICE_TAG == 3
COMPUTE_UNIT_LIMIT_LEN == 5
COMPUTE_UNIT_LIMIT_TAG == 2

\* Pubkey::from_base58("ComputeBudget111111111111111111111111111111")
COMPUTE_BUDGET_PROGRAM ==
    <<3, 6, 70, 111, 229, 33, 23, 50, 255, 236, 173, 186, 114, 195, 155, 231,
      188, 140, 229, 187, 197, 247, 18, 107, 44, 67, 155, 58, 64, 0, 0, 0>>

\* The bytes of an integer, most significant first.
ToBeBytes(limbs) ==
    [i \in 1..(2 * Len(limbs)) |->
        IF i % 2 = 1 THEN limbs[Len(limbs) - (i \div 2)] \div 256
        ELSE limbs[Len(limbs) + 1 - (i \div 2)] % 256]

\* u64::to_le_bytes / u32::to_le_bytes
ToLeBytes(limbs) ==
    [i \in 1..(2 * Len(limbs)) |->
        IF i % 2 = 1 THEN limbs[(i + 1) \div 2] % 256
        ELSE limbs[i \div 2] \div 256]

\* u64::from_le_bytes / u32::from_le_bytes
FromLeBytes(bytes) ==
    [i \in 1..(Len(bytes) \div 2) |-> bytes[2 * i - 1] + 256 * bytes[2 * i]]

\* compute_budget_program_index: position of the program in account_keys as u8,
\* -1 for None
compute_budget_program_index(tx) ==
    IF Position(tx.message.account_keys, COMPUTE_BUDGET_PROGRAM) = -1 THEN -1
    ELSE Position(tx.message.account_keys, COMPUTE_BUDGET_PROGRAM) % 256

\* `ix.program_id_index == idx && ix.data.len() == len && ix.data[0] == tag`
ComputeBudgetMatch(ix, idx, len, tag) ==
    /\ ix.program_id_index = idx
    /\ Len(ix.data) = len
    /\ ix.data[1] = tag

\* The loop `for ix in self.instructions()`: the 1-based position of the first
\* instruction that matches, 0 when the program is absent or none matches.
ComputeBudgetFind(tx, idx, len, tag) ==
    IF idx = -1 THEN 0
    ELSE IF \E j \in 1..Len(tx.message.instructions) :
                ComputeBudgetMatch(tx.message.instructions[j], idx, len, tag)
    THEN CHOOSE j \in 1..Len(tx.message.instructions) :
             /\ ComputeBudgetMatch(tx.message.instructions[j], idx, len, tag)
             /\ \A k \in 1..(j - 1) :
                   ~ComputeBudgetMatch(tx.message.instructions[k], idx, len, tag)
    ELSE 0

ComputeBudgetGet(tx, j, len) ==
    IF j = 0 THEN [some |-> FALSE]
    ELSE [some |-> TRUE,
          value |-> FromLeBytes(SubSeq(tx.message.instructions[j].data, 2, len))]

\* `ix.data[1..len].copy_from_slice(&value.to_le_bytes()); return Ok(true)`
ComputeBudgetSet(tx, j, value) ==
    IF j = 0 THEN [ok |-> TRUE, value |-> FALSE, tx |-> tx]
    ELSE [ok |-> TRUE, value |-> TRUE,
          tx |-> [tx EXCEPT
                     !.message.instructions[j].data =
                         <<@[1]>> \o ToLeBytes(value)]]

get_compute_unit_price(tx) ==
    ComputeBudgetGet(tx,
                     ComputeBudgetFind(tx, compute_budget_program_index(tx),
                                       COMPUTE_UNIT_PRICE_LEN, COMPUTE_UNIT_PRICE_TAG),
                     COMPUTE_UNIT_PRICE_LEN)

set_compute_unit_price(tx, micro_lamports) ==
    ComputeBudgetSet(tx,
                     ComputeBudgetFind(tx, compute_budget_program_index(tx),
                                       COMPUTE_UNIT_PRICE_LEN, COMPUTE_UNIT_PRICE_TAG),
                     micro_lamports)

get_compute_unit_limit(tx) ==
    ComputeBudgetGet(tx,
                     ComputeBudgetFind(tx, compute_budget_program_index(tx),
                                       COMPUTE_UNIT_LIMIT_LEN, COMPUTE_UNIT_LIMIT_TAG),
                     COMPUTE_UNIT_LIMIT_LEN)

set_compute_unit_limit(tx, units) ==
    ComputeBudgetSet(tx,
                     ComputeBudgetFind(tx, compute_budget_program_index(tx),
                                       COMPUTE_UNIT_LIMIT_LEN, COMPUTE_UNIT_LIMIT_TAG),
                     units)

(***************************************************************************)
(* crypto/mod.rs and types/transaction.rs: signing and verification.       *)
(* Ed25519 is outside the repository.  A signature is held symbolically,   *)
(* as the tag 1 followed by the private key and the signed bytes, so two   *)
(* signatures are equal exactly when key and bytes are equal and no        *)
(* signature is all-zero; the public key of a private key is the key with  *)
(* 100 subtracted from every byte.                                         *)
(***************************************************************************)
PRIVATE_KEY_BYTES == 32

\* signing_key.sign(message)
Ed25519Sign(private_key, message) == <<1>> \o private_key \o message

\* signing_key.verifying_key().to_bytes()
VerifyingKeyOf(private_key) ==
    [i \in 1..Len(private_key) |-> (private_key[i] + 156) % 256]

SigningKeyOf(public_key) ==
    [i \in 1..Len(public_key) |-> (public_key[i] + 100) % 256]

\* verifying_key.verify(message, signature)
Ed25519Verify(public_key, message, signature) ==
    signature = Ed25519Sign(SigningKeyOf(public_key), message)

\* sign_message: a private key that is not 32 bytes long is refused.
sign_message(private_key, message) ==
    IF Len(private_key) # PRIVATE_KEY_BYTES THEN Err
    ELSE [ok |-> TRUE, signature |-> Ed25519Sign(private_key, message)]

\* SignatureBytes::new([0u8; 64])
ZeroSignature == [i \in 1..SIGNATURE_BYTES |-> 0]

\* `signature.as_bytes().iter().all(|&b| b == 0)`
IsZeroSignature(signature) == \A i \in 1..Len(signature) : signature[i] = 0

\* The loop of Transaction::sign over the first num_required private keys: each
\* signature is pushed; a refused key ends the call with what was pushed so far.
RECURSIVE SignLoop(_, _, _, _, _)
SignLoop(tx, private_keys, message_bytes, i, num_required_sigs) ==
    IF i > num_required_sigs THEN [ok |-> TRUE, tx |-> tx]
    ELSE IF ~sign_message(private_keys[i], message_bytes).ok
    THEN [ok |-> FALSE, tx |-> tx]
    ELSE SignLoop([tx EXCEPT !.signatures =
                       Append(@, sign_message(private_keys[i], message_bytes).signature)],
                  private_keys, message_bytes, i + 1, num_required_sigs)

\* A sign that keeps the signatures that were present and appends to them.
Transaction_signKeepSignatures(tx, private_keys) ==
    IF ~Message_serialize_for_signing(tx.message).ok THEN [ok |-> FALSE, tx |-> tx]
    ELSE IF Len(private_keys) < tx.message.header.num_required_signatures
    THEN [ok |-> FALSE, tx |-> tx]
    ELSE SignLoop(tx, private_keys,
                  Message_serialize_for_signing(tx.message).bytes, 1,
                  tx.message.header.num_required_signatures)

\* Transaction::sign.  The signatures are cleared before the number of private
\* keys is checked.
Transaction_sign(tx, private_keys) ==
    IF ~Message_serialize_for_signing(tx.message).ok THEN [ok |-> FALSE, tx |-> tx]
    ELSE IF Len(private_keys) < tx.message.header.num_required_signatures
    THEN [ok |-> FALSE, tx |-> [tx EXCEPT !.signatures = <<>>]]
    ELSE SignLoop([tx EXCEPT !.signatures = <<>>], private_keys,
                  Message_serialize_for_signing(tx.message).bytes, 1,
                  tx.message.header.num_required_signatures)

\* A resize that starts every call from all-zero slots.
GrowSignaturesZeroed(signatures, num_required_sigs) ==
    [i \in 1..(IF Len(signatures) < num_required_sigs
               THEN num_required_sigs ELSE Len(signatures)) |-> ZeroSignature]

\* `signatures.resize(num_required_sigs, zero)` when the vector is shorter
GrowSignatures(signatures, num_required_sigs) ==
    IF Len(signatures) < num_required_sigs
    THEN signatures \o [i \in 1..(num_required_sigs - Len(signatures)) |-> ZeroSignature]
    ELSE signatures

\* The loop of Transaction::partial_sign over the (private key, public key) pairs.
RECURSIVE PartialSignLoop(_, _, _, _, _)
PartialSignLoop(tx, private_keys, public_keys, message_bytes, i) ==
    IF i > Len(private_keys) THEN [ok |-> TRUE, tx |-> tx]
    ELSE IF \/ Position(tx.message.account_keys, public_keys[i]) = -1
            \/ Position(tx.message.account_keys, public_keys[i])
                   >= tx.message.header.num_required_signatures
    THEN PartialSignLoop(tx, private_keys, public_keys, message_bytes, i + 1)
    ELSE IF ~sign_message(private_keys[i], message_bytes).ok
    THEN [ok |-> FALSE, tx |-> tx]
    ELSE PartialSignLoop(
             [tx EXCEPT
                 !.signatures[Position(tx.message.account_keys, public_keys[i]) + 1] =
                     sign_message(private_keys[i], message_bytes).signature],
             private_keys, public_keys, message_bytes, i + 1)

\* A partial_sign that signs as sign does, by the order of the private keys.
Transaction_partial_signAsSign(tx, private_keys, public_keys) ==
    Transaction_sign(tx, private_keys)

\* Transaction::partial_sign
Transaction_partial_sign(tx, private_keys, public_keys) ==
    IF Len(private_keys) # Len(public_keys) THEN [ok |-> FALSE, tx |-> tx]
    ELSE IF ~Message_serialize_for_signing(tx.message).ok THEN [ok |-> FALSE, tx |-> tx]
    ELSE PartialSignLoop(
             [tx EXCEPT !.signatures =
                 GrowSignatures(@, tx.message.header.num_required_signatures)],
             private_keys, public_keys,
             Message_serialize_for_signing(tx.message).bytes, 1)

\* An is_signed that looks at the number of signatures only.
Transaction_is_signedLengthOnly(tx) ==
    Len(tx.signatures) >= tx.message.header.num_required_signatures

\* Transaction::is_signed
Transaction_is_signed(tx) ==
    /\ Len(tx.signatures) >= tx.message.header.num_required_signatures
    /\ \A i \in 1..tx.message.header.num_required_signatures :
          ~IsZeroSignature(tx.signatures[i])

\* Transaction::new(message): no signatures
Transaction_new(message) == [signatures |-> <<>>, message |-> message]

\* borsh: a u32 length prefix, little endian
BorshU32(n) ==
    <<n % 256, (n \div 256) % 256, (n \div 65536) % 256, (n \div 16777216) % 256>>

\* borsh of a CompiledInstruction: u8, Vec<u8>, Vec<u8>
BorshInstruction(ix) ==
    <<ix.program_id_index>> \o BorshU32(Len(ix.accounts)) \o ix.accounts
    \o BorshU32(Len(ix.data)) \o ix.data

\* borsh::to_vec(&transaction.message): the derived BorshSerialize of Message
BorshMessage(message) ==
    <<message.header.num_required_signatures,
      message.header.num_readonly_signed_accounts,
      message.header.num_readonly_unsigned_accounts>>
    \o BorshU32(Len(message.account_keys))
    \o Concat(message.account_keys)
    \o message.recent_blockhash
    \o BorshU32(Len(message.instructions))
    \o Concat([j \in 1..Len(message.instructions) |->
                  BorshInstruction(message.instructions[j])])

\* The bytes verify_transaction checks the signatures against.
VerifiedBytes(message) == BorshMessage(message)

\* verify_transaction: every signature i of the vector is checked under
\* account_keys[i]; indexing past the key table panics.
verify_transaction(tx) ==
    IF Len(tx.signatures) > Len(tx.message.account_keys)
    THEN [ok |-> FALSE, panic |-> TRUE]
    ELSE [ok |-> \A i \in 1..Len(tx.signatures) :
                    Ed25519Verify(tx.message.account_keys[i],
                                  VerifiedBytes(tx.message), tx.signatures[i]),
          panic |-> FALSE]

(***************************************************************************)
(* types/pda.rs, crypto/pda.rs, instructions/associated_token.rs:          *)
(* program-derived addresses.  SHA-256 and Ed25519 point decompression are *)
(* outside the repository.  The digest of an input is an argument (hash)   *)
(* of the operators; which 32-byte values decompress is a table over the   *)
(* values that occur.                                                      *)
(***************************************************************************)
MAX_SEEDS == 16
MAX_SEED_LEN == 32
FIRST_BUMP == 255

\* b"ProgramDerivedAddress"
PDA_MARKER ==
    <<80, 114, 111, 103, 114, 97, 109, 68, 101, 114, 105, 118, 101, 100,
      65, 100, 100, 114, 101, 115, 115>>

\* Pubkey::from_base58 of SYSTEM_PROGRAM_ID, TOKEN_PROGRAM_ID and
\* ASSOCIATED_TOKEN_PROGRAM_ID
SYSTEM_PROGRAM == [i \in 1..PUBKEY_BYTES |-> 0]

TOKEN_PROGRAM ==
    <<6, 221, 246, 225, 215, 101, 161, 147, 217, 203, 225, 70, 206, 235, 121, 172,
      28, 180, 133, 237, 95, 91, 55, 145, 58, 140, 245, 133, 126, 255, 0, 169>>

ASSOCIATED_TOKEN_PROGRAM ==
    <<140, 151, 37, 143, 78, 36, 137, 241, 187, 61, 16, 41, 20, 142, 13, 131,
      11, 90, 19, 153, 218, 255, 16, 132, 4, 142, 123, 216, 219, 233, 248, 89>>

\* owner_pubkey() and mint_pubkey() of the associated-token tests
OwnerPubkey ==
    <<249, 197, 14, 156, 207, 108, 138, 31, 8, 80, 21, 167, 199, 76, 26, 247,
      39, 112, 225, 45, 41, 84, 202, 250, 212, 185, 107, 178, 196, 68, 170, 78>>

MintPubkey ==
    <<100, 241, 52, 255, 153, 74, 170, 62, 130, 155, 146, 201, 69, 124, 120, 198,
      218, 15, 203, 7, 249, 87, 109, 108, 40, 174, 162, 133, 191, 140, 4, 132>>

\* b"helloWorld"
HelloWorld == <<104, 101, 108, 108, 111, 87, 111, 114, 108, 100>>

\* SHA-256 digests.  The first six are the digests of "helloWorld" under the
\* system program with bump 255 and 254, of the associated-token seeds of
\* OwnerPubkey and MintPubkey with bump 255 and 254, and of the seeds "a" and
\* "e" under program [1; 32] with bump 255.
DigestHelloWorld255 ==
    <<97, 171, 122, 223, 149, 22, 39, 47, 245, 15, 35, 118, 246, 51, 207, 40,
      102, 209, 84, 235, 56, 246, 159, 151, 162, 125, 14, 63, 200, 124, 100, 134>>

DigestHelloWorld254 ==
    <<45, 236, 145, 150, 214, 136, 253, 173, 176, 164, 64, 165, 73, 186, 6, 115,
      23, 39, 102, 78, 239, 109, 91, 178, 118, 20, 244, 122, 28, 49, 41, 40>>

DigestAta255 ==
    <<135, 184, 68, 146, 159, 24, 32, 31, 180, 192, 29, 133, 234, 205, 185, 76,
      241, 60, 211, 20, 224, 211, 74, 213, 238, 91, 211, 32, 119, 245, 248, 196>>

DigestAta254 ==
    <<38, 171, 221, 123, 248, 177, 6, 164, 208, 46, 252, 66, 100, 224, 136, 174,
      39, 229, 123, 11, 17, 97, 86, 53, 114, 17, 216, 136, 181, 253, 133, 100>>

DigestA255 ==
    <<13, 138, 61, 47, 214, 85, 55, 213, 44, 38, 164, 192, 168, 19, 147, 192,
      188, 248, 78, 147, 63, 64, 106, 158, 70, 100, 57, 187, 188, 249, 150, 55>>

DigestE255 ==
    <<12, 8, 110, 60, 117, 119, 83, 191, 229, 83, 200, 210, 134, 248, 249, 23,
      98, 202, 75, 9, 244, 236, 108, 196, 35, 188, 179, 153, 1, 239, 19, 193>>

ZeroDigest == [i \in 1..HASH_BYTES |-> 0]

\* get_associated_token_address: the first 10 bytes of each of the three seeds
\* (wallet, token program, mint), at most 32 bytes, the rest zero.
get_associated_token_address(wallet_address, token_mint_address) ==
    SubSeq(wallet_address, 1, 10) \o SubSeq(TOKEN_PROGRAM, 1, 10)
    \o SubSeq(token_mint_address, 1, 10) \o <<0, 0>>

\* The 32-byte values of the model that Ed25519 point decompression accepts
\* (the all-zero value is the point of order 4 with y = 0).
CurvePoints ==
    {ZeroDigest, DigestHelloWorld255, DigestAta255, DigestA255,
     get_associated_token_address(OwnerPubkey, MintPubkey)}

\* VerifyingKey::from_bytes(bytes).is_ok()
Decompresses(bytes) == bytes \in CurvePoints

\* types/pda.rs is_on_curve: the all-zero value is reported as not on the curve.
is_on_curve(bytes) ==
    IF \A i \in 1..Len(bytes) : bytes[i] = 0 THEN FALSE
    ELSE Decompresses(bytes)

\* crypto/pda.rs PdaFinder::is_on_curve: `(bytes[31] & 0x80) != 0`
PdaFinder_is_on_curve(bytes) == bytes[32] >= 128

\* `seeds.len() > MAX_SEEDS` and `seed.len() > MAX_SEED_LEN` are errors
SeedsValid(seeds) ==
    /\ Len(seeds) <= MAX_SEEDS
    /\ \A i \in 1..Len(seeds) : Len(seeds[i]) <= MAX_SEED_LEN

\* The bytes fed to the hasher: seeds, bump, program id, marker.
HashInput(program_id, seeds, bump) ==
    Concat(seeds) \o <<bump>> \o program_id \o PDA_MARKER

\* PdaFinder::create_program_address hashes seeds, program id, marker.
PdaFinder_HashInput(seeds, program_id) ==
    Concat(seeds) \o program_id \o PDA_MARKER

\* types/pda.rs create_program_address; hash is Sha256 of
\* HashInput(program_id, seeds, bump_seed).
create_program_address(program_id, seeds, bump_seed, hash) ==
    IF ~SeedsValid(seeds) THEN Err
    ELSE IF is_on_curve(hash) THEN Err
    ELSE [ok |-> TRUE, address |-> hash]

\* PdaFinder::create_program_address; hash is Sha256 of
\* PdaFinder_HashInput(seeds, program_id).
PdaFinder_create_program_address(seeds, program_id, hash) ==
    IF ~SeedsValid(seeds) THEN Err
    ELSE IF PdaFinder_is_on_curve(hash) THEN Err
    ELSE [ok |-> TRUE, address |-> hash]

\* One pass of the loop of types/pda.rs find_program_address at bump: the
\* address is returned, the bumps are exhausted, or the loop goes on.
FindPass(bump, hash) ==
    IF ~is_on_curve(hash)
    THEN [pc |-> "found", res |-> [ok |-> TRUE, address |-> hash, bump |-> bump],
          bump |-> bump]
    ELSE IF bump = 0
    THEN [pc |-> "exhausted", res |-> Err, bump |-> bump]
    ELSE [pc |-> "searching", res |-> Err, bump |-> bump - 1]

\* One pass of `for bump in (0..=255u8).rev()` of PdaFinder::find_program_address:
\* the bump is pushed as one more seed; behind the last pass is panic!.
PdaFinder_FindPass(seeds, program_id, bump, hash) ==
    IF PdaFinder_create_program_address(Append(seeds, <<bump>>), program_id, hash).ok
    THEN [pc |-> "found", res |-> [ok |-> TRUE, address |-> hash, bump |-> bump],
          bump |-> bump]
    ELSE IF bump = 0
    THEN [pc |-> "panicked", res |-> Err, bump |-> bump]
    ELSE [pc |-> "searching", res |-> Err, bump |-> bump - 1]

(***************************************************************************)
(* Inputs                                                                  *)
(***************************************************************************)
Fill(b, n) == [i \in 1..n |-> b]

\* Pubkey::new([b; 32]) and SignatureBytes::new([b; 64])
Pubkey_new(b) == Fill(b, PUBKEY_BYTES)
SignatureBytes_new(b) == Fill(b, SIGNATURE_BYTES)

RECURSIVE SeqsUpTo(_, _)
SeqsUpTo(S, n) ==
    IF n = 0 THEN {<<>>}
    ELSE LET shorter == SeqsUpTo(S, n - 1)
         IN  shorter \cup {Append(s, x) : s \in {t \in shorter : Len(t) = n - 1}, x \in S}

\* Every sequence that holds each element of S once.
RECURSIVE Perms(_)
Perms(S) ==
    IF S = {} THEN {<<>>}
    ELSE UNION {{<<x>> \o p : p \in Perms(S \ {x})} : x \in S}

(***************************************************************************)
(* The codec harness: a length is encoded and the bytes, possibly followed *)
(* by further bytes, are decoded; or raw bytes are decoded.                *)
(***************************************************************************)
MaxRawLen == 3
RawByteValues == {0, 1, 3, 4, 127, 128, 129, 255}
TrailingBytes == {<<>>, <<0>>, <<128, 0>>}
RawInputs == SeqsUpTo(RawByteValues, MaxRawLen)

CodecEncode ==
    /\ cu_pc = "idle"
    /\ \E n \in 0..(U16_MAX + 1), tail \in TrailingBytes :
         LET r == encode_length_to_compact_u16_bytes(n)
         IN  /\ cu_n' = n
             /\ cu_enc' = IF r.ok THEN r.bytes ELSE <<>>
             /\ cu_bytes' = IF r.ok THEN r.bytes \o tail ELSE <<>>
             /\ cu_pc' = IF r.ok THEN "ready" ELSE "encode_err"
    /\ UNCHANGED cu_res
    /\ UNCHANGED <<wire_vars, tb_vars, sg_vars, vt_vars, pda_vars, rx_vars>>

CodecFeedRaw ==
    /\ cu_pc = "idle"
    /\ \E raw \in RawInputs :
         /\ cu_bytes' = raw
         /\ cu_n' = -1
         /\ cu_enc' = <<>>
         /\ cu_pc' = "ready"
    /\ UNCHANGED cu_res
    /\ UNCHANGED <<wire_vars, tb_vars, sg_vars, vt_vars, pda_vars, rx_vars>>

CodecDecode ==
    /\ cu_pc = "ready"
    /\ cu_res' = decode_compact_u16_len(cu_bytes)
    /\ cu_pc' = "decoded"
    /\ UNCHANGED <<cu_n, cu_enc, cu_bytes>>
    /\ UNCHANGED <<wire_vars, tb_vars, sg_vars, vt_vars, pda_vars, rx_vars>>

CodecInit ==
    /\ cu_pc = "idle" /\ cu_n = -1 /\ cu_enc = <<>> /\ cu_bytes = <<>> /\ cu_res = Err
    /\ wire_pc = "none" /\ wire_in = <<>> /\ wire_orig = Err /\ wire_tx = Err
    /\ wire_out = Err
    /\ tb_pc = "none" /\ builder = Err /\ tb_tx = Err
    /\ sg_pc = "none" /\ sg_tx = Err /\ sg_prev = Err /\ sg_call = Err
    /\ sg_supplied = {} /\ sg_verify = Err /\ sg_proper = FALSE
    /\ pda_pc = "none" /\ pda_call = Err /\ pda_bump = -1 /\ pda_input = <<>>
    /\ pda_digest = <<>> /\ pda_evals = 0 /\ pda_skipped = FALSE /\ pda_res = Err
    /\ pda_create = Err
    /\ rx_pc = "none" /\ rx_in = <<>> /\ rx_call = "none" /\ rx_tx = Err
    /\ rx_allocs = <<>>
    /\ vt_pc = "none" /\ vt_tx = Err /\ vt_prev = Err /\ vt_call = Err

CodecNext == CodecEncode \/ CodecFeedRaw \/ CodecDecode

SpecCodec == CodecInit /\ [][CodecNext]_vars

(***************************************************************************)
(* The wire harness.  Receive side: a byte string B is deserialized and    *)
(* the transaction is serialized again.  Send side: a transaction value    *)
(* is serialized and the bytes are deserialized.                           *)
(***************************************************************************)
MaxSigs == 2
MaxKeys == 2
MaxIx == 2
MaxLookups == 1

WireHeaders ==
    {[num_required_signatures |-> h[1],
      num_readonly_signed_accounts |-> h[2],
      num_readonly_unsigned_accounts |-> h[3]] :
        h \in {<<0, 0, 0>>, <<1, 0, 1>>, <<2, 1, 1>>, <<127, 255, 255>>,
               <<128, 0, 0>>, <<129, 0, 1>>, <<255, 255, 255>>}}

\* The first signature is the all-zero sentinel.
WireSignatures(n) == [i \in 1..n |-> SignatureBytes_new(i - 1)]
WireKeys(n) == [i \in 1..n |-> Pubkey_new(i)]

\* Instructions with one-byte and two-byte length prefixes, and an empty one.
WireIxPool ==
    <<[program_id_index |-> 1, accounts |-> <<0, 1>>,
       data |-> <<3, 112, 17, 1, 0, 0, 0, 0, 0>>],
      [program_id_index |-> 255, accounts |-> Fill(0, 128), data |-> Fill(5, 130)],
      [program_id_index |-> 0, accounts |-> <<>>, data |-> <<>>]>>

WireInstructions(start, n) ==
    [i \in 1..n |-> WireIxPool[((start + i - 2) % Len(WireIxPool)) + 1]]

WireLookupPool ==
    <<[account_key |-> Pubkey_new(40), writable_indexes |-> <<1, 2>>,
       readonly_indexes |-> <<>>],
      [account_key |-> Pubkey_new(41), writable_indexes |-> <<>>,
       readonly_indexes |-> Fill(3, 129)]>>

WireLookups(n) ==
    [i \in 1..n |-> WireLookupPool[((i - 1) % Len(WireLookupPool)) + 1]]

WireBlockhash == Fill(9, HASH_BYTES)

WireLegacyTxs ==
    {[variant |-> "Legacy",
      signatures |-> WireSignatures(s),
      message |-> [header |-> h,
                   account_keys |-> WireKeys(k),
                   recent_blockhash |-> WireBlockhash,
                   instructions |-> WireInstructions(st, n)]] :
        h \in WireHeaders, s \in 0..MaxSigs, k \in 0..MaxKeys,
        st \in 1..Len(WireIxPool), n \in 0..MaxIx}

WireV0Txs ==
    {[variant |-> "V0",
      signatures |-> t.signatures,
      message |-> [header |-> t.message.header,
                   account_keys |-> t.message.account_keys,
                   recent_blockhash |-> t.message.recent_blockhash,
                   instructions |-> t.message.instructions,
                   address_table_lookups |-> WireLookups(l)]] :
        t \in WireLegacyTxs, l \in 0..MaxLookups}

WireTxs == WireLegacyTxs \cup WireV0Txs

WireMutations ==
    {"none", "tail1", "tail2", "alias_sigs", "cut1", "cut33", "version129"}

\* Offset of the message region in the serialization of a transaction of WireTxs
\* (their signature count takes one byte).
MessageOffsetOf(bytes) == 1 + SIGNATURE_BYTES * bytes[1]

Mutate(bytes, m) ==
    CASE m = "none" -> bytes
      [] m = "tail1" -> bytes \o <<0>>
      [] m = "tail2" -> bytes \o <<1, 2>>
      [] m = "alias_sigs" -> <<bytes[1] + 128, 0>> \o Tail(bytes)
      [] m = "cut1" -> Slice(bytes, 0, Len(bytes) - 1)
      [] m = "cut33" -> Slice(bytes, 0, Len(bytes) - 33)
      [] m = "version129" ->
            [bytes EXCEPT ![MessageOffsetOf(bytes) + 1] = 129]

\* Transactions compiled by TransactionBuilder, for the send side.
WireBuiltTxs ==
    {TransactionBuilder_build(b, CHOOSE o \in Perms(DOMAIN b.account_metas) : TRUE) :
        b \in {TransactionBuilder_add_instruction(
                   TransactionBuilder_new(Pubkey_new(5), WireBlockhash), ix) :
               ix \in {[program_id |-> Pubkey_new(9),
                        accounts |-> <<[pubkey |-> Pubkey_new(1), is_signer |-> FALSE,
                                        is_writable |-> TRUE],
                                       [pubkey |-> Pubkey_new(2), is_signer |-> TRUE,
                                        is_writable |-> FALSE],
                                       [pubkey |-> Pubkey_new(5), is_signer |-> TRUE,
                                        is_writable |-> TRUE]>>,
                        data |-> d] : d \in {<<>>, Fill(163, 200)}}}}

WireReceive ==
    /\ wire_pc = "idle"
    /\ \E t \in WireTxs, m \in WireMutations :
         wire_in' = Mutate(VersionedTransaction_serialize(t).bytes, m)
    /\ wire_pc' = "received"
    /\ UNCHANGED <<wire_orig, wire_tx, wire_out>>
    /\ UNCHANGED <<cu_vars, tb_vars, sg_vars, vt_vars, pda_vars, rx_vars>>

WireDeserialize ==
    /\ wire_pc = "received"
    /\ wire_tx' = VersionedTransaction_deserialize_with_version(wire_in)
    /\ wire_pc' = "decoded"
    /\ UNCHANGED <<wire_in, wire_orig, wire_out>>
    /\ UNCHANGED <<cu_vars, tb_vars, sg_vars, vt_vars, pda_vars, rx_vars>>

WireReserialize ==
    /\ wire_pc = "decoded"
    /\ wire_tx.ok
    /\ wire_out' = VersionedTransaction_serialize(wire_tx.tx)
    /\ wire_pc' = "reserialized"
    /\ UNCHANGED <<wire_in, wire_orig, wire_tx>>
    /\ UNCHANGED <<cu_vars, tb_vars, sg_vars, vt_vars, pda_vars, rx_vars>>

WireMakeTx ==
    /\ wire_pc = "idle"
    /\ \E t \in WireTxs : wire_orig' = [ok |-> TRUE, kind |-> "VersionedTransaction", tx |-> t]
    /\ wire_pc' = "have_tx"
    /\ UNCHANGED <<wire_in, wire_tx, wire_out>>
    /\ UNCHANGED <<cu_vars, tb_vars, sg_vars, vt_vars, pda_vars, rx_vars>>

WireMakeBuilt ==
    /\ wire_pc = "idle"
    /\ \E t \in WireBuiltTxs : wire_orig' = [ok |-> TRUE, kind |-> "Transaction", tx |-> t]
    /\ wire_pc' = "have_tx"
    /\ UNCHANGED <<wire_in, wire_tx, wire_out>>
    /\ UNCHANGED <<cu_vars, tb_vars, sg_vars, vt_vars, pda_vars, rx_vars>>

WireSerialize ==
    /\ wire_pc = "have_tx"
    /\ wire_out' = IF wire_orig.kind = "Transaction"
                   THEN Transaction_serialize_legacy(wire_orig.tx)
                   ELSE VersionedTransaction_serialize(wire_orig.tx)
    /\ wire_pc' = "serialized"
    /\ UNCHANGED <<wire_in, wire_orig, wire_tx>>
    /\ UNCHANGED <<cu_vars, tb_vars, sg_vars, vt_vars, pda_vars, rx_vars>>

WireDeserializeOut ==
    /\ wire_pc = "serialized"
    /\ wire_out.ok
    /\ wire_tx' = VersionedTransaction_deserialize_with_version(wire_out.bytes)
    /\ wire_pc' = "roundtripped"
    /\ UNCHANGED <<wire_in, wire_orig, wire_out>>
    /\ UNCHANGED <<cu_vars, tb_vars, sg_vars, vt_vars, pda_vars, rx_vars>>

WireInit ==
    /\ cu_pc = "none" /\ cu_n = -1 /\ cu_enc = <<>> /\ cu_bytes = <<>> /\ cu_res = Err
    /\ wire_pc = "idle" /\ wire_in = <<>> /\ wire_orig = Err /\ wire_tx = Err
    /\ wire_out = Err
    /\ tb_pc = "none" /\ builder = Err /\ tb_tx = Err
    /\ sg_pc = "none" /\ sg_tx = Err /\ sg_prev = Err /\ sg_call = Err
    /\ sg_supplied = {} /\ sg_verify = Err /\ sg_proper = FALSE
    /\ pda_pc = "none" /\ pda_call = Err /\ pda_bump = -1 /\ pda_input = <<>>
    /\ pda_digest = <<>> /\ pda_evals = 0 /\ pda_skipped = FALSE /\ pda_res = Err
    /\ pda_create = Err
    /\ rx_pc = "none" /\ rx_in = <<>> /\ rx_call = "none" /\ rx_tx = Err
    /\ rx_allocs = <<>>
    /\ vt_pc = "none" /\ vt_tx = Err /\ vt_prev = Err /\ vt_call = Err

WireNext ==
    \/ WireReceive \/ WireDeserialize \/ WireReserialize
    \/ WireMakeTx \/ WireMakeBuilt \/ WireSerialize \/ WireDeserializeOut

SpecWire == WireInit /\ [][WireNext]_vars

(***************************************************************************)
(* The builder harness: instructions are added to a TransactionBuilder and *)
(* build() compiles them, the HashMap yielding its keys in any order.      *)
(***************************************************************************)
MaxInstructions == 2

\* Two keys that differ in their last byte only.
PubkeyNear(b, last) == [i \in 1..PUBKEY_BYTES |-> IF i = PUBKEY_BYTES THEN last ELSE b]

TBFeePayers == {Pubkey_new(5), Pubkey_new(2)}

AccountMeta(pubkey, is_signer, is_writable) ==
    [pubkey |-> pubkey, is_signer |-> is_signer, is_writable |-> is_writable]

\* Instructions over five addresses: an address with different flags in different
\* instructions, readonly signers, a program id that is an account elsewhere, the
\* fee payer listed with lower flags and as a program id, an address twice in one
\* instruction, a program id among its own accounts, no accounts at all.
TBInstructionPool ==
    {[program_id |-> Pubkey_new(9), data |-> <<1>>,
      accounts |-> <<AccountMeta(Pubkey_new(1), FALSE, TRUE),
                     AccountMeta(Pubkey_new(2), TRUE, FALSE)>>],
     [program_id |-> Pubkey_new(9), data |-> <<2>>,
      accounts |-> <<AccountMeta(Pubkey_new(1), TRUE, FALSE),
                     AccountMeta(PubkeyNear(2, 3), FALSE, FALSE)>>],
     [program_id |-> Pubkey_new(1), data |-> <<3>>,
      accounts |-> <<AccountMeta(Pubkey_new(2), FALSE, TRUE),
                     AccountMeta(Pubkey_new(2), TRUE, FALSE)>>],
     [program_id |-> Pubkey_new(5), data |-> <<4>>,
      accounts |-> <<AccountMeta(Pubkey_new(5), FALSE, FALSE),
                     AccountMeta(Pubkey_new(9), FALSE, TRUE)>>],
     [program_id |-> PubkeyNear(2, 3), data |-> <<5>>,
      accounts |-> <<AccountMeta(PubkeyNear(2, 3), TRUE, TRUE)>>],
     [program_id |-> Pubkey_new(9), data |-> <<>>,
      accounts |-> <<>>],
     [program_id |-> Pubkey_new(9), data |-> <<7>>,
      accounts |-> <<AccountMeta(PubkeyNear(2, 3), TRUE, FALSE),
                     AccountMeta(Pubkey_new(1), FALSE, FALSE)>>],
     [program_id |-> Pubkey_new(9), data |-> <<8>>,
      accounts |-> <<AccountMeta(PubkeyNear(2, 3), FALSE, TRUE),
                     AccountMeta(Pubkey_new(2), FALSE, FALSE)>>]}

TBAddInstruction ==
    /\ tb_pc = "building"
    /\ Len(builder.instructions) < MaxInstructions
    /\ \E instruction \in TBInstructionPool :
         builder' = TransactionBuilder_add_instruction(builder, instruction)
    /\ UNCHANGED <<tb_pc, tb_tx>>
    /\ UNCHANGED <<cu_vars, wire_vars, sg_vars, vt_vars, pda_vars, rx_vars>>

\* build() returns Ok(Transaction); the builder is kept to compare the result with.
TBBuild ==
    /\ tb_pc = "building"
    /\ \E iteration \in Perms(DOMAIN builder.account_metas) :
         tb_tx' = [ok |-> TRUE, tx |-> TransactionBuilder_build(builder, iteration)]
    /\ tb_pc' = "built"
    /\ UNCHANGED builder
    /\ UNCHANGED <<cu_vars, wire_vars, sg_vars, vt_vars, pda_vars, rx_vars>>

Init ==
    /\ cu_pc = "none" /\ cu_n = -1 /\ cu_enc = <<>> /\ cu_bytes = <<>> /\ cu_res = Err
    /\ wire_pc = "none" /\ wire_in = <<>> /\ wire_orig = Err /\ wire_tx = Err
    /\ wire_out = Err
    /\ tb_pc = "building" /\ tb_tx = Err
    /\ sg_pc = "none" /\ sg_tx = Err /\ sg_prev = Err /\ sg_call = Err
    /\ sg_supplied = {} /\ sg_verify = Err /\ sg_proper = FALSE
    /\ pda_pc = "none" /\ pda_call = Err /\ pda_bump = -1 /\ pda_input = <<>>
    /\ pda_digest = <<>> /\ pda_evals = 0 /\ pda_skipped = FALSE /\ pda_res = Err
    /\ pda_create = Err
    /\ rx_pc = "none" /\ rx_in = <<>> /\ rx_call = "none" /\ rx_tx = Err
    /\ rx_allocs = <<>>
    /\ vt_pc = "none" /\ vt_tx = Err /\ vt_prev = Err /\ vt_call = Err
    /\ builder \in {TransactionBuilder_new(fee_payer, WireBlockhash) :
                       fee_payer \in TBFeePayers}

Next == TBAddInstruction \/ TBBuild

Spec == Init /\ [][Next]_vars

(***************************************************************************)
(* The editing harness: a VersionedTransaction, decoded from the bytes of  *)
(* a built transaction, is edited by add_instruction and by the            *)
(* compute-budget setters.                                                 *)
(***************************************************************************)
MaxTxInstructions == 5

\* 999999, u64::MAX and 0x0708050603040102; 0, u32::MAX and 0x03040102
U64Values == {<<16959, 15, 0, 0>>, <<65535, 65535, 65535, 65535>>,
              <<258, 772, 1286, 1800>>}
U32Values == {<<0, 0>>, <<65535, 65535>>, <<258, 772>>}

\* instructions::compute_budget::set_compute_unit_limit / set_compute_unit_price
ComputeBudgetInstruction(tag, value) ==
    [program_id |-> COMPUTE_BUDGET_PROGRAM, accounts |-> <<>>,
     data |-> <<tag>> \o ToLeBytes(value)]

TransferInstruction ==
    [program_id |-> Pubkey_new(9), data |-> <<2, 0, 0, 0, 100, 0, 0, 0, 0, 0, 0, 0>>,
     accounts |-> <<AccountMeta(Pubkey_new(5), TRUE, TRUE),
                    AccountMeta(Pubkey_new(1), FALSE, TRUE),
                    AccountMeta(Pubkey_new(2), TRUE, FALSE)>>]

\* Built transactions as they come back from the wire: with a limit and a price
\* instruction, with a price instruction only, with neither.
EditBuilders ==
    {TransactionBuilder_add_instruction(
         TransactionBuilder_add_instruction(
             TransactionBuilder_add_instruction(
                 TransactionBuilder_new(Pubkey_new(5), WireBlockhash),
                 ComputeBudgetInstruction(COMPUTE_UNIT_LIMIT_TAG, <<26784, 6>>)),
             ComputeBudgetInstruction(COMPUTE_UNIT_PRICE_TAG, <<4464, 1, 0, 0>>)),
         TransferInstruction),
     TransactionBuilder_add_instruction(
         TransactionBuilder_add_instruction(
             TransactionBuilder_new(Pubkey_new(5), WireBlockhash),
             TransferInstruction),
         ComputeBudgetInstruction(COMPUTE_UNIT_PRICE_TAG, <<4464, 1, 0, 0>>)),
     TransactionBuilder_add_instruction(
         TransactionBuilder_new(Pubkey_new(5), WireBlockhash),
         TransferInstruction)}

EditLegacyTxs ==
    {VersionedTransaction_deserialize_with_version(
         Transaction_serialize_legacy(
             TransactionBuilder_build(
                 b, CHOOSE o \in Perms(DOMAIN b.account_metas) : TRUE)).bytes).tx :
        b \in EditBuilders}

AsV0(tx) ==
    [variant |-> "V0", signatures |-> tx.signatures,
     message |-> [header |-> tx.message.header,
                  account_keys |-> tx.message.account_keys,
                  recent_blockhash |-> tx.message.recent_blockhash,
                  instructions |-> tx.message.instructions,
                  address_table_lookups |-> <<>>]]

\* The same transactions with a signature, 64 non-zero bytes, in every slot.
EditSignedTxs ==
    {[tx EXCEPT !.signatures = [i \in 1..Len(@) |-> SignatureBytes_new(i)]] :
        tx \in EditLegacyTxs}

EditStartTxs == EditLegacyTxs \cup EditSignedTxs \cup {AsV0(tx) : tx \in EditLegacyTxs}

\* Instructions to add: a new writable address next to an existing signer; a new
\* program id listed among its own accounts with a new address listed readonly and
\* then writable; a new address listed writable three times and a new readonly one;
\* existing addresses only; a new address as writable signer; a new address as
\* readonly signer.
EditInstructionPool ==
    {[program_id |-> Pubkey_new(9), data |-> <<11>>,
      accounts |-> <<AccountMeta(Pubkey_new(21), FALSE, TRUE),
                     AccountMeta(Pubkey_new(5), TRUE, TRUE)>>],
     [program_id |-> Pubkey_new(22), data |-> <<12>>,
      accounts |-> <<AccountMeta(Pubkey_new(22), FALSE, TRUE),
                     AccountMeta(Pubkey_new(23), FALSE, FALSE),
                     AccountMeta(Pubkey_new(23), FALSE, TRUE)>>],
     [program_id |-> Pubkey_new(24), data |-> <<13>>,
      accounts |-> <<AccountMeta(Pubkey_new(25), FALSE, TRUE),
                     AccountMeta(Pubkey_new(26), FALSE, FALSE),
                     AccountMeta(Pubkey_new(25), FALSE, TRUE),
                     AccountMeta(Pubkey_new(21), FALSE, TRUE),
                     AccountMeta(Pubkey_new(25), FALSE, TRUE)>>],
     [program_id |-> Pubkey_new(9), data |-> <<>>,
      accounts |-> <<AccountMeta(Pubkey_new(1), FALSE, FALSE),
                     AccountMeta(COMPUTE_BUDGET_PROGRAM, FALSE, TRUE)>>],
     [program_id |-> Pubkey_new(9), data |-> <<15>>,
      accounts |-> <<AccountMeta(Pubkey_new(21), FALSE, TRUE),
                     AccountMeta(Pubkey_new(27), TRUE, TRUE)>>],
     [program_id |-> Pubkey_new(9), data |-> <<16>>,
      accounts |-> <<AccountMeta(Pubkey_new(28), TRUE, FALSE)>>]}

EditAddInstruction ==
    /\ vt_pc = "ready"
    /\ Len(vt_tx.message.instructions) < MaxTxInstructions
    /\ \E instruction \in EditInstructionPool :
         /\ vt_call' = [op |-> "add_instruction", instruction |-> instruction,
                        ok |-> VersionedTransaction_add_instruction(vt_tx, instruction).ok]
         /\ vt_tx' = VersionedTransaction_add_instruction(vt_tx, instruction).tx
         /\ vt_pc' = IF VersionedTransaction_add_instruction(vt_tx, instruction).panic
                     THEN "panicked" ELSE "ready"
    /\ vt_prev' = vt_tx
    /\ UNCHANGED <<cu_vars, wire_vars, tb_vars, sg_vars, pda_vars, rx_vars>>

EditSetComputeUnitPrice ==
    /\ vt_pc = "ready"
    /\ \E micro_lamports \in U64Values :
         /\ vt_call' = [op |-> "set_compute_unit_price", value |-> micro_lamports,
                        ok |-> set_compute_unit_price(vt_tx, micro_lamports).ok,
                        found |-> set_compute_unit_price(vt_tx, micro_lamports).value]
         /\ vt_tx' = set_compute_unit_price(vt_tx, micro_lamports).tx
    /\ vt_prev' = vt_tx
    /\ UNCHANGED vt_pc
    /\ UNCHANGED <<cu_vars, wire_vars, tb_vars, sg_vars, pda_vars, rx_vars>>

EditSetComputeUnitLimit ==
    /\ vt_pc = "ready"
    /\ \E units \in U32Values :
         /\ vt_call' = [op |-> "set_compute_unit_limit", value |-> units,
                        ok |-> set_compute_unit_limit(vt_tx, units).ok,
                        found |-> set_compute_unit_limit(vt_tx, units).value]
         /\ vt_tx' = set_compute_unit_limit(vt_tx, units).tx
    /\ vt_prev' = vt_tx
    /\ UNCHANGED vt_pc
    /\ UNCHANGED <<cu_vars, wire_vars, tb_vars, sg_vars, pda_vars, rx_vars>>

EditInit ==
    /\ cu_pc = "none" /\ cu_n = -1 /\ cu_enc = <<>> /\ cu_bytes = <<>> /\ cu_res = Err
    /\ wire_pc = "none" /\ wire_in = <<>> /\ wire_orig = Err /\ wire_tx = Err
    /\ wire_out = Err
    /\ tb_pc = "none" /\ builder = Err /\ tb_tx = Err
    /\ sg_pc = "none" /\ sg_tx = Err /\ sg_prev = Err /\ sg_call = Err
    /\ sg_supplied = {} /\ sg_verify = Err /\ sg_proper = FALSE
    /\ pda_pc = "none" /\ pda_call = Err /\ pda_bump = -1 /\ pda_input = <<>>
    /\ pda_digest = <<>> /\ pda_evals = 0 /\ pda_skipped = FALSE /\ pda_res = Err
    /\ pda_create = Err
    /\ rx_pc = "none" /\ rx_in = <<>> /\ rx_call = "none" /\ rx_tx = Err
    /\ rx_allocs = <<>>
    /\ vt_pc = "ready" /\ vt_prev = Err /\ vt_call = [op |-> "none"]
    /\ vt_tx \in EditStartTxs

EditNext == EditAddInstruction \/ EditSetComputeUnitPrice \/ EditSetComputeUnitLimit

SpecEdit == EditInit /\ [][EditNext]_vars

(***************************************************************************)
(* Signing harness: a built transaction, with the signature slots build    *)
(* gives it or with none (Transaction::new), is signed by partial_sign     *)
(* calls, then by sign calls, and handed to verify_transaction.            *)
(***************************************************************************)
PrivateKey(b) == Fill(b, PRIVATE_KEY_BYTES)

\* A two-signer transaction (fee payer and one readonly signer) and a
\* one-signer transaction.
SignBuilders ==
    {TransactionBuilder_add_instruction(
         TransactionBuilder_new(Pubkey_new(5), WireBlockhash),
         TransferInstruction),
     TransactionBuilder_add_instruction(
         TransactionBuilder_new(Pubkey_new(5), WireBlockhash),
         [program_id |-> Pubkey_new(9), data |-> <<7>>,
          accounts |-> <<AccountMeta(Pubkey_new(1), FALSE, TRUE),
                         AccountMeta(Pubkey_new(3), FALSE, FALSE)>>])}

SignBuiltTxs ==
    {TransactionBuilder_build(b, CHOOSE o \in Perms(DOMAIN b.account_metas) : TRUE) :
        b \in SignBuilders}

\* The private keys of the two signers, and the public keys handed to
\* partial_sign: the two signers and a non-signer of both transactions.
SignPrivateKeys == {PrivateKey(105), PrivateKey(102)}
SignPublicKeys == {Pubkey_new(5), Pubkey_new(2), Pubkey_new(1)}

\* Private key lists for sign: too few, matching, swapped, one too many, and one
\* whose second key is a byte short.
SignKeyLists ==
    {<<>>, <<PrivateKey(105)>>, <<PrivateKey(102)>>,
     <<PrivateKey(105), PrivateKey(102)>>,
     <<PrivateKey(102), PrivateKey(105)>>,
     <<PrivateKey(105), PrivateKey(102), PrivateKey(101)>>,
     <<PrivateKey(105), Fill(102, PRIVATE_KEY_BYTES - 1)>>}

\* (private_keys, public_keys) for partial_sign: up to two pairs, and lists of
\* different lengths.
SignPairLists ==
    {<<<<>>, <<>>>>}
    \cup {<<<<k>>, <<p>>>> : k \in SignPrivateKeys, p \in SignPublicKeys}
    \cup {<<<<k1, k2>>, <<p1, p2>>>> :
             k1 \in SignPrivateKeys, k2 \in SignPrivateKeys,
             p1 \in SignPublicKeys, p2 \in SignPublicKeys}
    \cup {<<<<PrivateKey(105)>>, <<>>>>,
          <<<<PrivateKey(105)>>, <<Pubkey_new(5), Pubkey_new(2)>>>>,
          <<<<PrivateKey(105), PrivateKey(102)>>, <<Pubkey_new(2)>>>>}

SignPartialSign ==
    /\ sg_pc = "ready"
    /\ \E pairs \in SignPairLists :
         /\ sg_call' = [op |-> "partial_sign", private_keys |-> pairs[1],
                        public_keys |-> pairs[2],
                        ok |-> Transaction_partial_sign(sg_tx, pairs[1], pairs[2]).ok]
         /\ sg_tx' = Transaction_partial_sign(sg_tx, pairs[1], pairs[2]).tx
         /\ sg_supplied' =
                IF Transaction_partial_sign(sg_tx, pairs[1], pairs[2]).ok
                THEN sg_supplied \cup {pairs[2][i] : i \in 1..Len(pairs[2])}
                ELSE sg_supplied
         /\ sg_proper' =
                (/\ sg_proper
                 /\ Len(pairs[1]) = 1 /\ Len(pairs[2]) = 1
                 /\ VerifyingKeyOf(pairs[1][1]) = pairs[2][1]
                 /\ Position(sg_tx.message.account_keys, pairs[2][1]) # -1
                 /\ Position(sg_tx.message.account_keys, pairs[2][1])
                        < sg_tx.message.header.num_required_signatures)
    /\ sg_prev' = sg_tx
    /\ UNCHANGED <<sg_pc, sg_verify>>
    /\ UNCHANGED <<cu_vars, wire_vars, tb_vars, vt_vars, pda_vars, rx_vars>>

SignSign ==
    /\ sg_pc \in {"ready", "signed"}
    /\ \E private_keys \in SignKeyLists :
         /\ sg_call' = [op |-> "sign", private_keys |-> private_keys,
                        public_keys |-> <<>>,
                        ok |-> Transaction_sign(sg_tx, private_keys).ok]
         /\ sg_tx' = Transaction_sign(sg_tx, private_keys).tx
    /\ sg_prev' = sg_tx
    /\ sg_pc' = "signed"
    /\ UNCHANGED <<sg_supplied, sg_verify, sg_proper>>
    /\ UNCHANGED <<cu_vars, wire_vars, tb_vars, vt_vars, pda_vars, rx_vars>>

SignVerify ==
    /\ sg_pc \in {"ready", "signed"}
    /\ sg_verify' = verify_transaction(sg_tx)
    /\ sg_pc' = "verified"
    /\ UNCHANGED <<sg_tx, sg_prev, sg_call, sg_supplied, sg_proper>>
    /\ UNCHANGED <<cu_vars, wire_vars, tb_vars, vt_vars, pda_vars, rx_vars>>

SignInit ==
    /\ cu_pc = "none" /\ cu_n = -1 /\ cu_enc = <<>> /\ cu_bytes = <<>> /\ cu_res = Err
    /\ wire_pc = "none" /\ wire_in = <<>> /\ wire_orig = Err /\ wire_tx = Err
    /\ wire_out = Err
    /\ tb_pc = "none" /\ builder = Err /\ tb_tx = Err
    /\ vt_pc = "none" /\ vt_tx = Err /\ vt_prev = Err /\ vt_call = Err
    /\ sg_pc = "ready" /\ sg_prev = Err /\ sg_supplied = {} /\ sg_verify = Err
    /\ pda_pc = "none" /\ pda_call = Err /\ pda_bump = -1 /\ pda_input = <<>>
    /\ pda_digest = <<>> /\ pda_evals = 0 /\ pda_skipped = FALSE /\ pda_res = Err
    /\ pda_create = Err
    /\ rx_pc = "none" /\ rx_in = <<>> /\ rx_call = "none" /\ rx_tx = Err
    /\ rx_allocs = <<>>
    /\ \E tx \in SignBuiltTxs :
          \/ sg_tx = tx /\ sg_call = [op |-> "build"] /\ sg_proper = TRUE
          \/ /\ sg_tx = Transaction_new(tx.message) /\ sg_call = [op |-> "new"]
             /\ sg_proper = FALSE

SignNext == SignPartialSign \/ SignSign \/ SignVerify

SpecSign == SignInit /\ [][SignNext]_vars

(***************************************************************************)
(* PDA harness: find_program_address of types/pda.rs or of PdaFinder is    *)
(* called and runs pass by pass; create_program_address is then called     *)
(* with the seeds and the bump that were found, or directly with a bump.   *)
(***************************************************************************)
SYSVAR_RENT ==
    <<6, 167, 213, 23, 25, 44, 92, 81, 33, 140, 201, 76, 61, 74, 241, 127, 88, 218,
      238, 8, 155, 161, 253, 68, 227, 219, 217, 138, 0, 0, 0, 0>>

\* instructions/associated_token.rs create_associated_token_account.
create_associated_token_account(payer, wallet_address, token_mint_address) ==
    [program_id |-> ASSOCIATED_TOKEN_PROGRAM, data |-> <<>>,
     accounts |-> <<AccountMeta(payer, TRUE, TRUE),
                    AccountMeta(get_associated_token_address(wallet_address,
                                                             token_mint_address),
                                FALSE, TRUE),
                    AccountMeta(wallet_address, FALSE, FALSE),
                    AccountMeta(token_mint_address, FALSE, FALSE),
                    AccountMeta(SYSTEM_PROGRAM, FALSE, FALSE),
                    AccountMeta(TOKEN_PROGRAM, FALSE, FALSE),
                    AccountMeta(SYSVAR_RENT, FALSE, FALSE)>>]

\* The digests SHA-256 may give for an input the table below does not list.
PdaDigests ==
    {ZeroDigest, DigestHelloWorld255, DigestA255, DigestHelloWorld254, DigestE255}

\* Sha256 of input: the digest of a listed input, the digest computed last
\* when the input is the one hashed last, any digest of PdaDigests otherwise.
Sha256(input, last_input, last_digest) ==
    IF input = HashInput(SYSTEM_PROGRAM, <<HelloWorld>>, 255)
    THEN {DigestHelloWorld255}
    ELSE IF input = HashInput(SYSTEM_PROGRAM, <<HelloWorld>>, 254)
    THEN {DigestHelloWorld254}
    ELSE IF input = HashInput(ASSOCIATED_TOKEN_PROGRAM,
                              <<OwnerPubkey, TOKEN_PROGRAM, MintPubkey>>, 255)
    THEN {DigestAta255}
    ELSE IF input = HashInput(ASSOCIATED_TOKEN_PROGRAM,
                              <<OwnerPubkey, TOKEN_PROGRAM, MintPubkey>>, 254)
    THEN {DigestAta254}
    ELSE IF input = HashInput(Pubkey_new(1), <<<<97>>>>, 255)
    THEN {DigestA255}
    ELSE IF input = HashInput(Pubkey_new(1), <<<<101>>>>, 255)
    THEN {DigestE255}
    ELSE IF input = last_input THEN {last_digest}
    ELSE PdaDigests

\* (program id, seeds): "helloWorld" under the system program; the
\* associated-token seeds; "a", "e" and one byte; no seed; 16 seeds of 32
\* bytes; 17 seeds; a seed of 33 bytes.
PdaArguments ==
    {<<SYSTEM_PROGRAM, <<HelloWorld>>>>,
     <<ASSOCIATED_TOKEN_PROGRAM, <<OwnerPubkey, TOKEN_PROGRAM, MintPubkey>>>>,
     <<Pubkey_new(1), <<<<97>>>>>>,
     <<Pubkey_new(1), <<<<101>>>>>>,
     <<Pubkey_new(1), <<<<7>>>>>>,
     <<Pubkey_new(1), <<>>>>,
     <<Pubkey_new(1), [i \in 1..MAX_SEEDS |-> Fill(i, MAX_SEED_LEN)]>>,
     <<Pubkey_new(1), [i \in 1..(MAX_SEEDS + 1) |-> <<i>>]>>,
     <<Pubkey_new(1), <<Fill(3, MAX_SEED_LEN + 1)>>>>}

\* types/pda.rs find_program_address, lines 13-32: the seeds are validated and
\* the search starts at bump 255.
PdaFind ==
    /\ pda_pc = "called"
    /\ pda_call.impl = "pda"
    /\ IF SeedsValid(pda_call.seeds)
       THEN pda_pc' = "searching" /\ pda_bump' = FIRST_BUMP
       ELSE pda_pc' = "rejected" /\ UNCHANGED pda_bump
    /\ UNCHANGED <<pda_call, pda_input, pda_digest, pda_evals, pda_skipped, pda_res,
                   pda_create>>
    /\ UNCHANGED <<cu_vars, wire_vars, tb_vars, sg_vars, vt_vars, rx_vars>>

\* One pass of the loop, lines 33-69.
PdaTry ==
    /\ pda_pc = "searching"
    /\ pda_call.impl = "pda"
    /\ \E hash \in Sha256(HashInput(pda_call.program_id, pda_call.seeds, pda_bump),
                          pda_input, pda_digest) :
         /\ pda_pc' = FindPass(pda_bump, hash).pc
         /\ pda_res' = FindPass(pda_bump, hash).res
         /\ pda_bump' = FindPass(pda_bump, hash).bump
         /\ pda_digest' = hash
         /\ pda_skipped' = (pda_skipped \/ (is_on_curve(hash) /\ ~Decompresses(hash)))
    /\ pda_input' = HashInput(pda_call.program_id, pda_call.seeds, pda_bump)
    /\ pda_evals' = pda_evals + 1
    /\ UNCHANGED <<pda_call, pda_create>>
    /\ UNCHANGED <<cu_vars, wire_vars, tb_vars, sg_vars, vt_vars, rx_vars>>

\* PdaFinder::find_program_address starts its loop without looking at the seeds.
PdaFinderFind ==
    /\ pda_pc = "called"
    /\ pda_call.impl = "PdaFinder"
    /\ pda_pc' = "searching"
    /\ pda_bump' = FIRST_BUMP
    /\ UNCHANGED <<pda_call, pda_input, pda_digest, pda_evals, pda_skipped, pda_res,
                   pda_create>>
    /\ UNCHANGED <<cu_vars, wire_vars, tb_vars, sg_vars, vt_vars, rx_vars>>

\* One pass of the loop of PdaFinder::find_program_address: the hash is computed
\* when create_program_address accepts the seeds with the bump pushed.
PdaFinderTry ==
    /\ pda_pc = "searching"
    /\ pda_call.impl = "PdaFinder"
    /\ \/ /\ SeedsValid(Append(pda_call.seeds, <<pda_bump>>))
          /\ \E hash \in Sha256(PdaFinder_HashInput(Append(pda_call.seeds, <<pda_bump>>),
                                                    pda_call.program_id),
                                pda_input, pda_digest) :
               /\ pda_pc' = PdaFinder_FindPass(pda_call.seeds, pda_call.program_id,
                                               pda_bump, hash).pc
               /\ pda_res' = PdaFinder_FindPass(pda_call.seeds, pda_call.program_id,
                                                pda_bump, hash).res
               /\ pda_bump' = PdaFinder_FindPass(pda_call.seeds, pda_call.program_id,
                                                 pda_bump, hash).bump
               /\ pda_digest' = hash
               /\ pda_skipped' =
                      (pda_skipped \/ (PdaFinder_is_on_curve(hash) /\ ~Decompresses(hash)))
          /\ pda_input' = PdaFinder_HashInput(Append(pda_call.seeds, <<pda_bump>>),
                                              pda_call.program_id)
          /\ pda_evals' = pda_evals + 1
       \/ /\ ~SeedsValid(Append(pda_call.seeds, <<pda_bump>>))
          /\ pda_pc' = PdaFinder_FindPass(pda_call.seeds, pda_call.program_id,
                                          pda_bump, ZeroDigest).pc
          /\ pda_res' = PdaFinder_FindPass(pda_call.seeds, pda_call.program_id,
                                           pda_bump, ZeroDigest).res
          /\ pda_bump' = PdaFinder_FindPass(pda_call.seeds, pda_call.program_id,
                                            pda_bump, ZeroDigest).bump
          /\ UNCHANGED <<pda_input, pda_digest, pda_evals, pda_skipped>>
    /\ UNCHANGED <<pda_call, pda_create>>
    /\ UNCHANGED <<cu_vars, wire_vars, tb_vars, sg_vars, vt_vars, rx_vars>>

\* create_program_address with the seeds of the call and the bump that was found.
PdaCreate ==
    /\ pda_pc = "found"
    /\ pda_call.impl = "pda"
    /\ \E hash \in Sha256(HashInput(pda_call.program_id, pda_call.seeds, pda_res.bump),
                          pda_input, pda_digest) :
         /\ pda_create' = create_program_address(pda_call.program_id, pda_call.seeds,
                                                 pda_res.bump, hash)
         /\ pda_digest' = hash
    /\ pda_input' = HashInput(pda_call.program_id, pda_call.seeds, pda_res.bump)
    /\ pda_pc' = "created"
    /\ UNCHANGED <<pda_call, pda_bump, pda_evals, pda_skipped, pda_res>>
    /\ UNCHANGED <<cu_vars, wire_vars, tb_vars, sg_vars, vt_vars, rx_vars>>

\* PdaFinder::create_program_address with the bump appended to the seed list.
PdaFinderCreate ==
    /\ pda_pc = "found"
    /\ pda_call.impl = "PdaFinder"
    /\ \E hash \in Sha256(PdaFinder_HashInput(Append(pda_call.seeds, <<pda_res.bump>>),
                                              pda_call.program_id),
                          pda_input, pda_digest) :
         /\ pda_create' = PdaFinder_create_program_address(
                              Append(pda_call.seeds, <<pda_res.bump>>),
                              pda_call.program_id, hash)
         /\ pda_digest' = hash
    /\ pda_input' = PdaFinder_HashInput(Append(pda_call.seeds, <<pda_res.bump>>),
                                        pda_call.program_id)
    /\ pda_pc' = "created"
    /\ UNCHANGED <<pda_call, pda_bump, pda_evals, pda_skipped, pda_res>>
    /\ UNCHANGED <<cu_vars, wire_vars, tb_vars, sg_vars, vt_vars, rx_vars>>

\* create_program_address called directly with a bump.
PdaCreateDirect ==
    /\ pda_pc = "called"
    /\ pda_call.impl = "pda"
    /\ \E bump \in {FIRST_BUMP, FIRST_BUMP - 1, 0} :
         /\ \E hash \in Sha256(HashInput(pda_call.program_id, pda_call.seeds, bump),
                               pda_input, pda_digest) :
              /\ pda_create' = create_program_address(pda_call.program_id,
                                                      pda_call.seeds, bump, hash)
              /\ pda_digest' = hash
         /\ pda_input' = HashInput(pda_call.program_id, pda_call.seeds, bump)
         /\ pda_bump' = bump
    /\ pda_pc' = "created_direct"
    /\ UNCHANGED <<pda_call, pda_evals, pda_skipped, pda_res>>
    /\ UNCHANGED <<cu_vars, wire_vars, tb_vars, sg_vars, vt_vars, rx_vars>>

PdaInit ==
    /\ cu_pc = "none" /\ cu_n = -1 /\ cu_enc = <<>> /\ cu_bytes = <<>> /\ cu_res = Err
    /\ wire_pc = "none" /\ wire_in = <<>> /\ wire_orig = Err /\ wire_tx = Err
    /\ wire_out = Err
    /\ tb_pc = "none" /\ builder = Err /\ tb_tx = Err
    /\ sg_pc = "none" /\ sg_tx = Err /\ sg_prev = Err /\ sg_call = Err
    /\ sg_supplied = {} /\ sg_verify = Err /\ sg_proper = FALSE
    /\ vt_pc = "none" /\ vt_tx = Err /\ vt_prev = Err /\ vt_call = Err
    /\ rx_pc = "none" /\ rx_in = <<>> /\ rx_call = "none" /\ rx_tx = Err
    /\ rx_allocs = <<>>
    /\ pda_pc = "called" /\ pda_bump = -1 /\ pda_input = <<>> /\ pda_digest = <<>>
    /\ pda_evals = 0 /\ pda_skipped = FALSE /\ pda_res = Err /\ pda_create = Err
    /\ pda_call \in {[impl |-> impl, program_id |-> a[1], seeds |-> a[2]] :
                        impl \in {"pda", "PdaFinder"}, a \in PdaArguments}

PdaNext ==
    \/ PdaFind \/ PdaTry \/ PdaCreate \/ PdaCreateDirect
    \/ PdaFinderFind \/ PdaFinderTry \/ PdaFinderCreate

SpecPda == PdaInit /\ [][PdaNext]_vars

(***************************************************************************)
(* Receive harness: bytes arrive and are handed to                         *)
(* Transaction::deserialize_with_version or to                             *)
(* VersionedTransaction::deserialize_with_version.                         *)
(***************************************************************************)
\* The serialization with its last byte replaced by the three-byte prefix of
\* the count 65535 or by the count 5.
RxMutations == WireMutations \cup {"count65535", "count5"}

RxMutate(bytes, m) ==
    CASE m = "count65535" -> Slice(bytes, 0, Len(bytes) - 1) \o <<255, 255, 3>>
      [] m = "count5" -> Slice(bytes, 0, Len(bytes) - 1) \o <<5>>
      [] OTHER -> Mutate(bytes, m)

RxReceive ==
    /\ rx_pc = "idle"
    /\ \E t \in WireTxs, m \in RxMutations :
         rx_in' = RxMutate(VersionedTransaction_serialize(t).bytes, m)
    /\ rx_pc' = "received"
    /\ UNCHANGED <<rx_call, rx_tx, rx_allocs>>
    /\ UNCHANGED <<cu_vars, wire_vars, tb_vars, sg_vars, vt_vars, pda_vars>>

RxDeserialize ==
    /\ rx_pc = "received"
    /\ rx_tx' = Transaction_deserialize_with_version(rx_in)
    /\ rx_allocs' = Allocations(rx_in, FALSE)
    /\ rx_call' = "Transaction"
    /\ rx_pc' = "decoded"
    /\ UNCHANGED rx_in
    /\ UNCHANGED <<cu_vars, wire_vars, tb_vars, sg_vars, vt_vars, pda_vars>>

RxDeserializeVersioned ==
    /\ rx_pc = "received"
    /\ rx_tx' = VersionedTransaction_deserialize_with_version(rx_in)
    /\ rx_allocs' = Allocations(rx_in, TRUE)
    /\ rx_call' = "VersionedTransaction"
    /\ rx_pc' = "decoded"
    /\ UNCHANGED rx_in
    /\ UNCHANGED <<cu_vars, wire_vars, tb_vars, sg_vars, vt_vars, pda_vars>>

RxInit ==
    /\ cu_pc = "none" /\ cu_n = -1 /\ cu_enc = <<>> /\ cu_bytes = <<>> /\ cu_res = Err
    /\ wire_pc = "none" /\ wire_in = <<>> /\ wire_orig = Err /\ wire_tx = Err
    /\ wire_out = Err
    /\ tb_pc = "none" /\ builder = Err /\ tb_tx = Err
    /\ sg_pc = "none" /\ sg_tx = Err /\ sg_prev = Err /\ sg_call = Err
    /\ sg_supplied = {} /\ sg_verify = Err /\ sg_proper = FALSE
    /\ vt_pc = "none" /\ vt_tx = Err /\ vt_prev = Err /\ vt_call = Err
    /\ pda_pc = "none" /\ pda_call = Err /\ pda_bump = -1 /\ pda_input = <<>>
    /\ pda_digest = <<>> /\ pda_evals = 0 /\ pda_skipped = FALSE /\ pda_res = Err
    /\ pda_create = Err
    /\ rx_pc = "idle" /\ rx_in = <<>> /\ rx_call = "none" /\ rx_tx = Err
    /\ rx_allocs = <<>>

RxNext == RxReceive \/ RxDeserialize \/ RxDeserializeVersioned

SpecRx == RxInit /\ [][RxNext]_vars

(***************************************************************************)
(* Claims about the codec                                                  *)
(***************************************************************************)

\* C3: for every n in 0..=65535 the decoder applied to the encoder's bytes, also when
\* further bytes follow them, returns (n, k) with k the number of bytes the encoder
\* emitted, which is 1, 2 or 3.
C3_EncodeDecodeInverse ==
    (cu_pc = "decoded" /\ cu_n # -1) =>
        /\ cu_res.ok
        /\ cu_res.len = cu_n
        /\ cu_res.used = Len(cu_enc)
        /\ Len(cu_enc) \in 1..3
        /\ (cu_n <= 127 <=> Len(cu_enc) = 1)
        /\ (cu_n >= 16384 <=> Len(cu_enc) = 3)

\* C3 witness: a three-byte encoding followed by further bytes has been decoded.
C3_Witness ==
    /\ cu_pc = "decoded"
    /\ cu_n = 65535
    /\ cu_enc = <<255, 255, 3>>
    /\ Len(cu_bytes) > Len(cu_enc)
    /\ cu_res.ok /\ cu_res.used = 3

\* The bytes the decoder consumes: up to and including the first byte with a clear
\* MSB, at most three.
RECURSIVE ConsumedPrefix(_, _)
ConsumedPrefix(bytes, k) ==
    IF k > Len(bytes) \/ k > MAX_COMPACT_LEN THEN Slice(bytes, 0, k - 1)
    ELSE IF bytes[k] < 128 THEN Slice(bytes, 0, k)
    ELSE ConsumedPrefix(bytes, k + 1)

HasAliasByte(bytes) ==
    LET c == ConsumedPrefix(bytes, 1)
    IN  \E i \in 2..Len(c) : c[i] = 0

\* C4 (as claimed): the decoder returns an error for every input in which a consumed
\* byte other than the first is 0x00.
C4_AliasRejected ==
    (cu_pc = "decoded" /\ HasAliasByte(cu_bytes)) => ~cu_res.ok

\* C5 (as claimed): every length the decoder returns is at most 65535.
C5_NoOverflow ==
    (cu_pc = "decoded" /\ cu_res.ok) => cu_res.len <= U16_MAX


(***************************************************************************)
(* Claims about the wire codec                                             *)
(***************************************************************************)

\* C1 (as claimed): for every byte string B that deserializes successfully to T,
\* T.serialize() returns exactly B.
C1_BytesRoundTrip ==
    wire_pc = "reserialized" => (wire_out.ok /\ wire_out.bytes = wire_in)

\* The fields deserialization has to give back.
SameFields(tx, variant, signatures, message) ==
    /\ tx.variant = variant
    /\ tx.signatures = signatures
    /\ tx.message.header = message.header
    /\ tx.message.account_keys = message.account_keys
    /\ tx.message.recent_blockhash = message.recent_blockhash
    /\ tx.message.instructions = message.instructions

ExpectedVariant(orig) ==
    IF orig.kind = "Transaction" THEN "Legacy" ELSE orig.tx.variant

ComesBackEqual ==
    /\ wire_tx.ok
    /\ SameFields(wire_tx.tx, ExpectedVariant(wire_orig),
                  wire_orig.tx.signatures, wire_orig.tx.message)

\* C2 (as claimed): for every transaction value, whatever its header bytes,
\* deserializing its serialized bytes succeeds and yields the same variant with equal
\* signatures, header, account_keys, recent_blockhash and instructions.
C2_ValueRoundTripAnyHeader ==
    wire_pc = "roundtripped" => ComesBackEqual

\* C2 (amended): the value comes back equal when it is a V0 transaction or its
\* num_required_signatures is at most 127, which covers the transactions built by
\* TransactionBuilder and serialized with serialize_legacy; a Legacy transaction with
\* num_required_signatures of 128 or more never comes back as Legacy.
C2_ValueRoundTrip ==
    wire_pc = "roundtripped" =>
        IF ExpectedVariant(wire_orig) = "V0"
           \/ wire_orig.tx.message.header.num_required_signatures <= 127
        THEN ComesBackEqual
        ELSE ~(wire_tx.ok /\ wire_tx.tx.variant = "Legacy")

\* C2 witness: a transaction built by TransactionBuilder whose instruction data needs
\* a two-byte length prefix went through serialize_legacy and came back as Legacy.
C2_Witness ==
    /\ wire_pc = "roundtripped"
    /\ wire_orig.kind = "Transaction"
    /\ Len(wire_orig.tx.message.instructions) = 1
    /\ Len(wire_orig.tx.message.instructions[1].data) >= 128
    /\ wire_tx.ok
    /\ wire_tx.tx.variant = "Legacy"
    /\ wire_tx.tx.message.instructions = wire_orig.tx.message.instructions

\* The message region of a byte string: what follows the signatures.
MessageRegion(bytes, sigs) ==
    IF sigs.ok THEN Slice(bytes, sigs.offset, Len(bytes)) ELSE <<>>

Discriminates(region, res) ==
    Len(region) >= 1 =>
        /\ region[1] < 128 =>
              (res.ok => /\ res.tx.variant = "Legacy"
                         /\ res.tx.message.header.num_required_signatures = region[1])
        /\ region[1] = 128 => (res.ok => res.tx.variant = "V0")
        /\ region[1] > 128 => ~res.ok

\* C6: the first byte of the message region decides: high bit clear, the message is
\* decoded as Legacy with that byte as num_required_signatures; 0x80, it is decoded as
\* V0; 0x81..0xFF, deserialize_with_version returns an error and no transaction.
C6_VersionByte ==
    wire_pc = "decoded" =>
        Discriminates(MessageRegion(wire_in, DecodeSignatures(wire_in)), wire_tx)

UnknownVersionTail(region, res) ==
    /\ Len(region) > 3
    /\ region[1] = 129
    /\ decode_v0_message(Slice(region, 1, Len(region)), <<>>).ok
    /\ ~res.ok

\* C6 witness: bytes that would be a well-formed v0 message but for the version
\* byte 0x81 have been refused.
C6_Witness ==
    /\ wire_pc = "decoded"
    /\ UnknownVersionTail(MessageRegion(wire_in, DecodeSignatures(wire_in)), wire_tx)

(***************************************************************************)
(* Claims about the message compiler                                       *)
(***************************************************************************)

\* What a header says about the 1-based position i of a table of n keys.
IsSignerIndex(header, i) == i <= header.num_required_signatures

IsWritableIndex(header, n, i) ==
    IF i <= header.num_required_signatures
    THEN i <= header.num_required_signatures - header.num_readonly_signed_accounts
    ELSE i <= n - header.num_readonly_unsigned_accounts

KeysWith(account_metas, is_signer, is_writable) ==
    {k \in DOMAIN account_metas : /\ account_metas[k].is_signer = is_signer
                                  /\ account_metas[k].is_writable = is_writable}

LayoutAndCounts(b, keys, header) ==
    /\ keys[1] = b.fee_payer
    /\ Len(keys) = Cardinality(DOMAIN b.account_metas)
    /\ {keys[i] : i \in 1..Len(keys)} = DOMAIN b.account_metas
    /\ header.num_required_signatures =
           Cardinality(KeysWith(b.account_metas, TRUE, TRUE))
           + Cardinality(KeysWith(b.account_metas, TRUE, FALSE))
    /\ header.num_readonly_signed_accounts =
           Cardinality(KeysWith(b.account_metas, TRUE, FALSE))
    /\ header.num_readonly_unsigned_accounts =
           Cardinality(KeysWith(b.account_metas, FALSE, FALSE))
    /\ \A i \in 1..Len(keys) :
          /\ b.account_metas[keys[i]].is_signer = IsSignerIndex(header, i)
          /\ b.account_metas[keys[i]].is_writable = IsWritableIndex(header, Len(keys), i)

\* C7: build() lays account_keys out as fee payer, other writable signers, readonly
\* signers, writable non-signers, readonly non-signers, and the header counts are the
\* bucket sizes, so the merged flags of the key at index i are those implied by i and
\* the header.
C7_LayoutAndHeader ==
    tb_pc = "built" =>
        LayoutAndCounts(builder, tb_tx.tx.message.account_keys, tb_tx.tx.message.header)

\* C7 witness: a built table with a second writable signer, a readonly signer, a
\* writable non-signer and a readonly non-signer behind the fee payer.
C7_Witness ==
    /\ tb_pc = "built"
    /\ tb_tx.tx.message.header.num_required_signatures = 3
    /\ tb_tx.tx.message.header.num_readonly_signed_accounts = 1
    /\ tb_tx.tx.message.header.num_readonly_unsigned_accounts = 1
    /\ Len(tb_tx.tx.message.account_keys) = 5

MergeLaw(instructions, keys, header) ==
    \A j \in 1..Len(instructions) :
        \A a \in 1..Len(instructions[j].accounts) :
            /\ \E i \in 1..Len(keys) : keys[i] = instructions[j].accounts[a].pubkey
            /\ \A i \in 1..Len(keys) :
                  keys[i] = instructions[j].accounts[a].pubkey =>
                      /\ instructions[j].accounts[a].is_signer =>
                             IsSignerIndex(header, i)
                      /\ instructions[j].accounts[a].is_writable =>
                             IsWritableIndex(header, Len(keys), i)

\* C8: an address that any instruction lists with is_signer (is_writable) true sits at
\* an index the header classifies as signer (writable), whatever the other uses of
\* the address and whatever the order of the instructions.
C8_MergeLaw ==
    tb_pc = "built" =>
        MergeLaw(builder.instructions, tb_tx.tx.message.account_keys,
                 tb_tx.tx.message.header)

LaterUseLowers(instructions) ==
    \E a \in 1..Len(instructions[1].accounts), c \in 1..Len(instructions[2].accounts) :
        /\ instructions[1].accounts[a].pubkey = instructions[2].accounts[c].pubkey
        /\ instructions[1].accounts[a].is_writable
        /\ ~instructions[2].accounts[c].is_writable
        /\ ~instructions[2].accounts[c].is_signer

\* C8 witness: a message was built from two instructions, the first listing an
\* address as writable, the second listing the same address with both flags false.
C8_Witness ==
    /\ tb_pc = "built"
    /\ Len(builder.instructions) = 2
    /\ LaterUseLowers(builder.instructions)

RECURSIVE AddAll(_, _)
AddAll(b, instructions) ==
    IF Len(instructions) = 0 THEN b
    ELSE AddAll(TransactionBuilder_add_instruction(b, Head(instructions)),
                Tail(instructions))

SameTable(b, tx) ==
    \A iteration \in Perms(DOMAIN b.account_metas) :
        /\ TransactionBuilder_build(b, iteration).message.account_keys
               = tx.message.account_keys
        /\ TransactionBuilder_build(b, iteration).message.header = tx.message.header

Deterministic(b, tx) ==
    \A order \in Perms(1..Len(b.instructions)) :
        SameTable(AddAll(TransactionBuilder_new(b.fee_payer, b.recent_blockhash),
                         [j \in 1..Len(order) |-> b.instructions[order[j]]]),
                  tx)

\* C9: the account_keys table and the header do not depend on the order in which
\* the hash map yields its keys nor on the order in which the instructions were
\* added: every such compilation gives the table and header of this one.
C9_Deterministic ==
    tb_pc = "built" => Deterministic(builder, tb_tx.tx)

\* C9 witness: two different instructions were compiled into a table in which two
\* readonly signers, whose keys differ in the last byte only, share a bucket.
C9_Witness ==
    /\ tb_pc = "built"
    /\ Len(builder.instructions) = 2
    /\ builder.instructions[1] # builder.instructions[2]
    /\ tb_tx.tx.message.header.num_readonly_signed_accounts = 2
    /\ tb_tx.tx.message.account_keys[2] = Pubkey_new(2)
    /\ tb_tx.tx.message.account_keys[3] = PubkeyNear(2, 3)

WritableKeys(b, keys) ==
    Cardinality({i \in 1..Len(keys) : b.account_metas[keys[i]].is_writable})

HeaderSum(header, n_keys) ==
    header.num_required_signatures
    + (n_keys - header.num_required_signatures - header.num_readonly_unsigned_accounts)

\* C10 (as claimed): num_required_signatures + (n_keys - num_required_signatures -
\* num_readonly_unsigned) is the number of keys whose merged is_writable flag is true.
C10_HeaderCoherence ==
    tb_pc = "built" =>
        HeaderSum(tb_tx.tx.message.header, Len(tb_tx.tx.message.account_keys))
            = WritableKeys(builder, tb_tx.tx.message.account_keys)

\* C10 (amended): the sum is the number of writable keys plus the number of readonly
\* signers, and the number of writable keys is the sum less num_readonly_signed.
C10_HeaderCoherenceAmended ==
    tb_pc = "built" =>
        HeaderSum(tb_tx.tx.message.header, Len(tb_tx.tx.message.account_keys))
            = WritableKeys(builder, tb_tx.tx.message.account_keys)
              + tb_tx.tx.message.header.num_readonly_signed_accounts

\* C10 witness: a built message with a readonly signer, where the sum exceeds the
\* number of writable keys.
C10_Witness ==
    /\ tb_pc = "built"
    /\ tb_tx.tx.message.header.num_readonly_signed_accounts >= 1
    /\ HeaderSum(tb_tx.tx.message.header, Len(tb_tx.tx.message.account_keys))
           > WritableKeys(builder, tb_tx.tx.message.account_keys)

Resolves(keys, index, address) ==
    /\ index < Len(keys)
    /\ keys[index + 1] = address

CompiledFrom(keys, compiled, instruction) ==
    /\ Resolves(keys, compiled.program_id_index, instruction.program_id)
    /\ Len(compiled.accounts) = Len(instruction.accounts)
    /\ \A j \in 1..Len(instruction.accounts) :
          Resolves(keys, compiled.accounts[j], instruction.accounts[j].pubkey)
    /\ compiled.data = instruction.data

\* C12: after build, compiled instruction k resolves through account_keys to the
\* program id and to the account addresses of input instruction k, in order, with
\* the data unchanged; hence every index is below len(account_keys).
C12_CompiledInstructions ==
    tb_pc = "built" =>
        /\ Len(tb_tx.tx.message.instructions) = Len(builder.instructions)
        /\ \A k \in 1..Len(builder.instructions) :
              CompiledFrom(tb_tx.tx.message.account_keys,
                           tb_tx.tx.message.instructions[k], builder.instructions[k])

\* C12 witness: two different instructions were compiled, the second one with its
\* program at the last index of a table of five keys.
C12_Witness ==
    /\ tb_pc = "built"
    /\ Len(builder.instructions) = 2
    /\ builder.instructions[1] # builder.instructions[2]
    /\ Len(tb_tx.tx.message.account_keys) = 5
    /\ tb_tx.tx.message.instructions[2].program_id_index = 4
    /\ Len(tb_tx.tx.message.instructions[2].accounts) = 2

(***************************************************************************)
(* Claims about the edited transaction                                     *)
(***************************************************************************)

NoDuplicates(keys) ==
    \A i \in 1..Len(keys), j \in 1..Len(keys) : keys[i] = keys[j] => i = j

\* C11: account_keys holds no address twice after build, and still none after any
\* sequence of add_instruction calls on the legacy transaction, also when an added
\* instruction lists a new address several times or lists its own new program id.
C11_NoDuplicates ==
    vt_pc # "none" => NoDuplicates(vt_tx.message.account_keys)

ListsOwnProgramAndRepeats(instruction) ==
    /\ Contains([a \in 1..Len(instruction.accounts) |-> instruction.accounts[a].pubkey],
                instruction.program_id)
    /\ \E a \in 1..Len(instruction.accounts), c \in 1..Len(instruction.accounts) :
          a # c /\ instruction.accounts[a].pubkey = instruction.accounts[c].pubkey

\* C11 witness: an instruction that lists its own new program id and lists another
\* new address twice has been added and the table grew by two keys.
C11_Witness ==
    /\ vt_pc = "ready"
    /\ vt_call.op = "add_instruction"
    /\ vt_call.ok
    /\ ListsOwnProgramAndRepeats(vt_call.instruction)
    /\ ~Contains(vt_prev.message.account_keys, vt_call.instruction.program_id)
    /\ Len(vt_tx.message.account_keys) = Len(vt_prev.message.account_keys) + 2


HoldsPrice(tx) ==
    ComputeBudgetFind(tx, compute_budget_program_index(tx),
                      COMPUTE_UNIT_PRICE_LEN, COMPUTE_UNIT_PRICE_TAG) # 0

HoldsLimit(tx) ==
    ComputeBudgetFind(tx, compute_budget_program_index(tx),
                      COMPUTE_UNIT_LIMIT_LEN, COMPUTE_UNIT_LIMIT_TAG) # 0

DataLengths(tx) ==
    [j \in 1..Len(tx.message.instructions) |-> Len(tx.message.instructions[j].data)]

\* back is the Result of deserialize_with_version on the bytes serialize gave.
ReadsTheSame(tx, back) ==
    /\ back.ok
    /\ get_compute_unit_price(back.tx) = get_compute_unit_price(tx)
    /\ get_compute_unit_limit(back.tx) = get_compute_unit_limit(tx)

ReadsTheSameAfterRoundTrip(tx) ==
    /\ VersionedTransaction_serialize(tx).ok
    /\ ReadsTheSame(tx, VersionedTransaction_deserialize_with_version(
                            VersionedTransaction_serialize(tx).bytes))

\* C17: on a transaction that holds a compute-budget instruction with 9-byte
\* data and discriminant 3, set_compute_unit_price(v) returns true and
\* get_compute_unit_price then returns v, while get_compute_unit_limit, the
\* number of instructions and the length of every instruction's data are
\* unchanged; the same for set_compute_unit_limit with 5-byte data and
\* discriminant 2; both values read the same after serialize followed by
\* deserialize_with_version.
C17_ComputeBudget ==
    /\ (/\ vt_pc = "ready"
        /\ vt_call.op = "set_compute_unit_price"
        /\ HoldsPrice(vt_prev))
       => /\ vt_call.ok /\ vt_call.found
          /\ get_compute_unit_price(vt_tx) = [some |-> TRUE, value |-> vt_call.value]
          /\ get_compute_unit_limit(vt_tx) = get_compute_unit_limit(vt_prev)
          /\ DataLengths(vt_tx) = DataLengths(vt_prev)
          /\ ReadsTheSameAfterRoundTrip(vt_tx)
    /\ (/\ vt_pc = "ready"
        /\ vt_call.op = "set_compute_unit_limit"
        /\ HoldsLimit(vt_prev))
       => /\ vt_call.ok /\ vt_call.found
          /\ get_compute_unit_limit(vt_tx) = [some |-> TRUE, value |-> vt_call.value]
          /\ get_compute_unit_price(vt_tx) = get_compute_unit_price(vt_prev)
          /\ DataLengths(vt_tx) = DataLengths(vt_prev)
          /\ ReadsTheSameAfterRoundTrip(vt_tx)

\* A price with eight different bytes written over another price on a
\* transaction that also holds a limit, after an instruction was added.
C17_Witness ==
    /\ vt_pc = "ready"
    /\ vt_call.op = "set_compute_unit_price"
    /\ vt_call.value = <<258, 772, 1286, 1800>>
    /\ HoldsPrice(vt_prev)
    /\ HoldsLimit(vt_prev)
    /\ get_compute_unit_price(vt_prev).value # vt_call.value
    /\ get_compute_unit_price(vt_tx).value = vt_call.value
    /\ Len(vt_tx.message.instructions) > 3
    /\ ReadsTheSameAfterRoundTrip(vt_tx)

\* The instruction lists, as a signer, an address that is not in keys.
IntroducesSigner(keys, instruction) ==
    \E a \in 1..Len(instruction.accounts) :
        /\ instruction.accounts[a].is_signer
        /\ ~Contains(keys, instruction.accounts[a].pubkey)

\* C18: add_instruction on a legacy transaction, given an instruction that lists
\* an address that is not in account_keys with is_signer = true, returns an
\* error: it does not panic and leaves account_keys as it was.
C18_NewSignerRejected ==
    (/\ vt_pc # "none"
     /\ vt_call.op = "add_instruction"
     /\ vt_prev.variant = "Legacy"
     /\ IntroducesSigner(vt_prev.message.account_keys, vt_call.instruction))
    => /\ vt_pc # "panicked"
       /\ ~vt_call.ok
       /\ vt_tx.message.account_keys = vt_prev.message.account_keys

\* The 1-based position of the first account meta that names key.
FirstUse(instruction, key) ==
    CHOOSE a \in 1..Len(instruction.accounts) :
        /\ instruction.accounts[a].pubkey = key
        /\ \A c \in 1..(a - 1) : instruction.accounts[c].pubkey # key

\* The addresses the instruction introduces, by the category of their first use:
\* a new program id is readonly whatever the account list says about it.
NewWritable(keys, instruction) ==
    {instruction.accounts[a].pubkey : a \in
        {c \in 1..Len(instruction.accounts) :
            /\ ~Contains(keys, instruction.accounts[c].pubkey)
            /\ instruction.accounts[c].pubkey # instruction.program_id
            /\ FirstUse(instruction, instruction.accounts[c].pubkey) = c
            /\ instruction.accounts[c].is_writable}}

NewReadonly(keys, instruction) ==
    {instruction.accounts[a].pubkey : a \in
        {c \in 1..Len(instruction.accounts) :
            /\ ~Contains(keys, instruction.accounts[c].pubkey)
            /\ instruction.accounts[c].pubkey # instruction.program_id
            /\ FirstUse(instruction, instruction.accounts[c].pubkey) = c
            /\ ~instruction.accounts[c].is_writable}}

\* The addresses of S in the order of their first use.
InOrderOfFirstUse(instruction, S) ==
    CHOOSE s \in Perms(S) :
        \A i \in 1..Len(s), j \in 1..Len(s) :
            i < j => FirstUse(instruction, s[i]) < FirstUse(instruction, s[j])

NewProgramId(keys, instruction) ==
    IF Contains(keys, instruction.program_id) THEN <<>> ELSE <<instruction.program_id>>

\* The table and header the claim describes, from the ones before the call.
PlacedAsClaimed(before, after, writable, readonly) ==
    /\ after.account_keys =
           SubSeq(before.account_keys, 1,
                  Len(before.account_keys)
                      - before.header.num_readonly_unsigned_accounts)
           \o writable
           \o SubSeq(before.account_keys,
                     Len(before.account_keys)
                         - before.header.num_readonly_unsigned_accounts + 1,
                     Len(before.account_keys))
           \o readonly
    /\ after.header.num_readonly_unsigned_accounts =
           before.header.num_readonly_unsigned_accounts + Len(readonly)
    /\ after.header.num_required_signatures = before.header.num_required_signatures
    /\ after.header.num_readonly_signed_accounts =
           before.header.num_readonly_signed_accounts

KeepsClassification(before, after) ==
    \A i \in 1..Len(before.account_keys) :
        /\ Contains(after.account_keys, before.account_keys[i])
        /\ IsSignerIndex(after.header,
                         Position(after.account_keys, before.account_keys[i]) + 1)
               = IsSignerIndex(before.header, i)
        /\ IsWritableIndex(after.header, Len(after.account_keys),
                           Position(after.account_keys, before.account_keys[i]) + 1)
               = IsWritableIndex(before.header, Len(before.account_keys), i)

SameAddresses(before, after, j) ==
    /\ after.account_keys[after.instructions[j].program_id_index + 1]
           = before.account_keys[before.instructions[j].program_id_index + 1]
    /\ Len(after.instructions[j].accounts) = Len(before.instructions[j].accounts)
    /\ \A a \in 1..Len(before.instructions[j].accounts) :
          after.account_keys[after.instructions[j].accounts[a] + 1]
              = before.account_keys[before.instructions[j].accounts[a] + 1]
    /\ after.instructions[j].data = before.instructions[j].data

\* C20: after each successful add_instruction on a legacy transaction, every
\* compiled instruction that existed before the call resolves through
\* account_keys to the program address and the account addresses it resolved to
\* before, the compute-unit price and limit read as before, and the appended
\* compiled instruction resolves to the program and the accounts of the
\* instruction that was added.
C20_StillResolves ==
    (/\ vt_pc = "ready"
     /\ vt_call.op = "add_instruction"
     /\ vt_call.ok)
    => /\ Len(vt_tx.message.instructions) = Len(vt_prev.message.instructions) + 1
       /\ \A j \in 1..Len(vt_prev.message.instructions) :
             SameAddresses(vt_prev.message, vt_tx.message, j)
       /\ get_compute_unit_price(vt_tx) = get_compute_unit_price(vt_prev)
       /\ get_compute_unit_limit(vt_tx) = get_compute_unit_limit(vt_prev)
       /\ CompiledFrom(vt_tx.message.account_keys,
                       vt_tx.message.instructions[Len(vt_tx.message.instructions)],
                       vt_call.instruction)

\* A second add_instruction inserts keys below indices that existing
\* instructions use, among them the compute-budget program of a price
\* instruction, and the indices have moved.
C20_Witness ==
    /\ vt_pc = "ready"
    /\ vt_call.op = "add_instruction"
    /\ vt_call.ok
    /\ Len(vt_prev.message.instructions) >= 3
    /\ HoldsPrice(vt_prev)
    /\ \E j \in 1..Len(vt_prev.message.instructions) :
          vt_tx.message.instructions[j].program_id_index
              > vt_prev.message.instructions[j].program_id_index
    /\ compute_budget_program_index(vt_tx) > compute_budget_program_index(vt_prev)

(***************************************************************************)
(* Claims about signing                                                    *)
(***************************************************************************)
SignedBy(tx, i, private_key) ==
    tx.signatures[i] =
        Ed25519Sign(private_key, Message_serialize_for_signing(tx.message).bytes)

EnoughPrivateKeys(tx, private_keys) ==
    /\ Len(private_keys) >= tx.message.header.num_required_signatures
    /\ \A i \in 1..tx.message.header.num_required_signatures :
          Len(private_keys[i]) = PRIVATE_KEY_BYTES

\* C13: Transaction::sign called with at least num_required_signatures private
\* keys (of 32 bytes) returns Ok, discards the signatures that were present and
\* leaves exactly num_required_signatures signatures, slot i being the signature
\* under private_keys[i] of the bytes of Message::serialize_for_signing; the
\* keys beyond the first num_required_signatures are ignored and the message is
\* left as it was.
C13_Sign ==
    (/\ sg_pc = "signed"
     /\ EnoughPrivateKeys(sg_prev, sg_call.private_keys))
    => /\ sg_call.ok
       /\ sg_tx.message = sg_prev.message
       /\ Len(sg_tx.signatures) = sg_tx.message.header.num_required_signatures
       /\ \A i \in 1..Len(sg_tx.signatures) :
             SignedBy(sg_tx, i, sg_call.private_keys[i])

\* sign with three keys on a two-signer transaction whose slots held other
\* signatures: the two slots are rewritten and the third key is unused.
C13_Witness ==
    /\ sg_pc = "signed"
    /\ sg_call.ok
    /\ Len(sg_call.private_keys) > sg_tx.message.header.num_required_signatures
    /\ sg_tx.message.header.num_required_signatures = 2
    /\ Len(sg_prev.signatures) = 2
    /\ ~IsZeroSignature(sg_prev.signatures[1])
    /\ sg_prev.signatures # sg_tx.signatures
    /\ Len(sg_tx.signatures) = 2

\* The pairs of a partial_sign call that address slot i of tx: the public key
\* sits at index i - 1 of account_keys and i - 1 < num_required_signatures.
AddressedBy(tx, call, i) ==
    {j \in 1..Len(call.public_keys) :
        /\ i <= tx.message.header.num_required_signatures
        /\ Position(tx.message.account_keys, call.public_keys[j]) = i - 1}

Last(S) == CHOOSE j \in S : \A k \in S : k <= j

\* The signatures partial_sign starts from: the ones present, grown with zero
\* sentinels up to num_required_signatures.
Grown(tx) ==
    [i \in 1..(IF Len(tx.signatures) < tx.message.header.num_required_signatures
               THEN tx.message.header.num_required_signatures
               ELSE Len(tx.signatures)) |->
        IF i <= Len(tx.signatures) THEN tx.signatures[i] ELSE ZeroSignature]

\* C14: a partial_sign call given as many public keys as private keys returns Ok
\* and leaves the message unchanged; the signatures are the ones present, grown
\* with all-zero sentinels up to num_required_signatures, except that a slot
\* addressed by a pair (the public key is at that index of account_keys, below
\* num_required_signatures) holds the signature of the message-for-signing bytes
\* under the private key of the last such pair.  A pair whose public key is
\* absent or at an index >= num_required_signatures changes nothing.
C14_PartialSign ==
    (/\ sg_pc = "ready"
     /\ sg_call.op = "partial_sign"
     /\ Len(sg_call.private_keys) = Len(sg_call.public_keys))
    => /\ sg_call.ok
       /\ sg_tx.message = sg_prev.message
       /\ Len(sg_tx.signatures) = Len(Grown(sg_prev))
       /\ \A i \in 1..Len(sg_tx.signatures) :
             IF AddressedBy(sg_prev, sg_call, i) = {}
             THEN sg_tx.signatures[i] = Grown(sg_prev)[i]
             ELSE SignedBy(sg_tx, i,
                           sg_call.private_keys[Last(AddressedBy(sg_prev, sg_call, i))])

\* A call on a transaction without signature slots with two pairs: the second
\* signer, and an address at an index >= num_required_signatures.  Slot 1 is a
\* grown sentinel, slot 2 is signed.
C14_Witness ==
    /\ sg_pc = "ready"
    /\ sg_call.op = "partial_sign"
    /\ sg_call.ok
    /\ sg_prev.signatures = <<>>
    /\ sg_call.public_keys = <<Pubkey_new(2), Pubkey_new(1)>>
    /\ Len(sg_tx.signatures) = 2
    /\ sg_tx.signatures[1] = ZeroSignature
    /\ SignedBy(sg_tx, 2, sg_call.private_keys[1])

RequiredSigners(tx) ==
    {tx.message.account_keys[i] : i \in 1..tx.message.header.num_required_signatures}

\* C15: the transaction build returns has num_required_signatures all-zero
\* signature slots and is_signed() is false; after any sequence of partial_sign
\* calls, is_signed() is true if and only if each of the first
\* num_required_signatures account keys was given as a public key in a call.
C15_IsSigned ==
    (sg_pc = "ready")
    => /\ sg_call.op = "build"
          => /\ Len(sg_tx.signatures) = sg_tx.message.header.num_required_signatures
             /\ \A i \in 1..Len(sg_tx.signatures) : IsZeroSignature(sg_tx.signatures[i])
             /\ ~Transaction_is_signed(sg_tx)
       /\ Transaction_is_signed(sg_tx) <=> RequiredSigners(sg_tx) \subseteq sg_supplied

\* The two-signer transaction: not signed after the fee payer alone, signed once
\* the extra signer has signed too.
C15_Witness ==
    /\ sg_pc = "ready"
    /\ sg_call.op = "partial_sign"
    /\ sg_tx.message.header.num_required_signatures = 2
    /\ sg_call.public_keys = <<sg_tx.message.account_keys[2]>>
    /\ Len(sg_prev.signatures) = 2
    /\ ~IsZeroSignature(sg_prev.signatures[1])
    /\ ~Transaction_is_signed(sg_prev)
    /\ Transaction_is_signed(sg_tx)

\* The private keys are the ones of account_keys[0..num_required_signatures].
MatchingPrivateKeys(tx, private_keys) ==
    /\ Len(private_keys) >= tx.message.header.num_required_signatures
    /\ \A i \in 1..tx.message.header.num_required_signatures :
          VerifyingKeyOf(private_keys[i]) = tx.message.account_keys[i]

\* C16: verify_transaction checks signatures[i], i < num_required_signatures,
\* under account_keys[i] against the bytes of Message::serialize_for_signing that
\* sign and partial_sign sign, so it returns Ok on a transaction just signed by
\* Transaction::sign with the private keys of
\* account_keys[0..num_required_signatures].
C16_VerifyAfterSign ==
    (/\ sg_pc = "verified"
     /\ sg_call.op = "sign"
     /\ sg_call.ok
     /\ MatchingPrivateKeys(sg_tx, sg_call.private_keys))
    => sg_verify.ok

(***************************************************************************)
(* Claims about program-derived addresses                                  *)
(***************************************************************************)
\* C21: for at most 16 seeds of at most 32 bytes, when find_program_address
\* returns (address, bump) the address is off the Ed25519 curve, and
\* create_program_address with the same seeds and that bump returns the same
\* address.
C21_FindThenCreate ==
    /\ (/\ pda_pc \in {"found", "created"}
        /\ SeedsValid(pda_call.seeds))
       => ~Decompresses(pda_res.address)
    /\ (/\ pda_pc = "created"
        /\ SeedsValid(pda_call.seeds))
       => /\ pda_create.ok
          /\ pda_create.address = pda_res.address

\* C22: a candidate digest of 32 zero bytes is rejected: find_program_address
\* never returns the all-zero address, and create_program_address returns an
\* error when the digest is all zeroes.
C22_ZeroDigestRejected ==
    /\ (/\ pda_call.impl = "pda"
        /\ pda_pc \in {"found", "created"})
       => pda_res.address # ZeroDigest
    /\ (/\ pda_call.impl = "pda"
        /\ pda_pc \in {"created", "created_direct"}
        /\ pda_digest = ZeroDigest)
       => pda_create = Err

\* C23: the address create_associated_token_account places in its instruction,
\* get_associated_token_address(wallet, mint), equals the address
\* find_program_address returns for the seeds (wallet, token program id, mint)
\* under the associated-token program id, and is off the Ed25519 curve.
C23_AssociatedTokenAddress ==
    (/\ pda_pc = "found"
     /\ pda_call.program_id = ASSOCIATED_TOKEN_PROGRAM
     /\ pda_call.seeds = <<OwnerPubkey, TOKEN_PROGRAM, MintPubkey>>)
    => /\ create_associated_token_account(Pubkey_new(5), OwnerPubkey,
                                          MintPubkey).accounts[2].pubkey
          = pda_res.address
       /\ ~Decompresses(get_associated_token_address(OwnerPubkey, MintPubkey))

\* C24: find_program_address examines the bumps 255, 254, ..., 0 in that
\* order, returns the first bump whose digest is off the curve, evaluates the
\* hash at most 256 times, and returns an error, without wrapping below 0,
\* looping again or panicking, when all 256 candidates are on the curve.
C24_BoundedSearch ==
    /\ pda_evals <= FIRST_BUMP + 1
    /\ pda_pc # "panicked"
    /\ pda_pc = "searching" => pda_bump \in 0..FIRST_BUMP
    /\ (/\ pda_pc = "searching"
        /\ Len(pda_call.seeds) < MAX_SEEDS)
       => pda_bump = FIRST_BUMP - pda_evals
    /\ pda_pc \in {"found", "created"} => ~pda_skipped
    /\ pda_pc = "exhausted" => pda_res = Err /\ pda_evals = FIRST_BUMP + 1

(***************************************************************************)
(* Claims about the received bytes                                         *)
(***************************************************************************)
\* C25: before the deserializer allocates a collection whose size comes from a
\* decoded length prefix (signatures, account keys, instructions, lookup
\* records) it has checked the prefix against the remaining input: each
\* allocated capacity is at most the number of input bytes remaining at that
\* point.
C25_AllocationsBounded ==
    rx_pc = "decoded"
    => \A i \in 1..Len(rx_allocs) : rx_allocs[i].capacity <= rx_allocs[i].remaining

\* C29: the legacy-only Transaction::deserialize_with_version returns an error
\* when the message region begins with a byte whose high bit is set (a
\* versioned message).
C29_LegacyOnlyRejectsVersioned ==
    (/\ rx_pc = "decoded"
     /\ rx_call = "Transaction"
     /\ DecodeSignatures(rx_in).ok
     /\ DecodeSignatures(rx_in).offset < Len(rx_in)
     /\ rx_in[DecodeSignatures(rx_in).offset + 1] >= 128)
    => ~rx_tx.ok

(***************************************************************************)
(* Claims about edits and signatures                                       *)
(***************************************************************************)
\* C26: add_instruction, set_compute_unit_price and set_compute_unit_limit
\* never modify the signatures vector: after each call, whatever it returns,
\* the signatures are exactly those present before, even though the message
\* they were computed over has changed.
C26_SignaturesUntouched ==
    vt_call.op # "none" => vt_tx.signatures = vt_prev.signatures

\* A signed transaction whose message add_instruction, or a setter, has changed:
\* the signatures installed before are still there.
C26_Witness ==
    /\ vt_call.op \in {"add_instruction", "set_compute_unit_price"}
    /\ vt_call.ok
    /\ vt_tx.message # vt_prev.message
    /\ Len(vt_tx.signatures) = 2
    /\ \A i \in 1..2 : ~IsZeroSignature(vt_prev.signatures[i])
    /\ vt_tx.signatures = vt_prev.signatures

\* C28: after add_instruction returns Ok, every address the added instruction
\* marks is_writable sits at an index the header classifies as writable, and
\* every address it marks is_signer sits at an index below
\* num_required_signatures, also when the address was already present in
\* account_keys before the call.
C28_MarksHonoured ==
    (/\ vt_call.op = "add_instruction"
     /\ vt_call.ok)
    => \A a \in 1..Len(vt_call.instruction.accounts) :
          /\ vt_call.instruction.accounts[a].is_writable
             => IsWritableIndex(vt_tx.message.header, Len(vt_tx.message.account_keys),
                                Position(vt_tx.message.account_keys,
                                         vt_call.instruction.accounts[a].pubkey) + 1)
          /\ vt_call.instruction.accounts[a].is_signer
             => IsSignerIndex(vt_tx.message.header,
                              Position(vt_tx.message.account_keys,
                                       vt_call.instruction.accounts[a].pubkey) + 1)

(***************************************************************************)
(* Claims about failed and repeated signing                                *)
(***************************************************************************)
\* C27: when Transaction::sign returns an error (fewer private keys than
\* num_required_signatures, or a private key that is not 32 bytes long) the
\* signatures vector is the same as before the call.
C27_FailedSignKeepsSignatures ==
    (/\ sg_call.op = "sign"
     /\ ~sg_call.ok)
    => sg_tx.signatures = sg_prev.signatures

\* The private keys of the required signers, in account-key order.
SignerKeysInOrder(tx) ==
    [i \in 1..tx.message.header.num_required_signatures |->
        SigningKeyOf(tx.message.account_keys[i])]

\* C30: on a freshly built transaction, partial_sign calls for the required
\* signers, one signer with its own key per call, in any order, leave the
\* signatures vector a single sign call with the same private keys in
\* account-key order produces; repeating a partial_sign call with the same
\* arguments changes nothing.
C30_PartialSignAnyOrder ==
    /\ (/\ sg_pc = "ready"
        /\ sg_proper
        /\ RequiredSigners(sg_tx) \subseteq sg_supplied)
       => /\ Transaction_sign(sg_tx, SignerKeysInOrder(sg_tx)).ok
          /\ sg_tx.signatures
                 = Transaction_sign(sg_tx, SignerKeysInOrder(sg_tx)).tx.signatures
    /\ (/\ sg_pc = "ready"
        /\ sg_call.op = "partial_sign")
       => Transaction_partial_sign(sg_tx, sg_call.private_keys,
                                   sg_call.public_keys).tx = sg_tx

\* The two signers of a built transaction have signed in the reverse of the
\* account-key order: the fee payer's call came last, on a vector that held the
\* second signer's signature and a zero slot.
C30_Witness ==
    /\ sg_pc = "ready"
    /\ sg_proper
    /\ sg_tx.message.header.num_required_signatures = 2
    /\ RequiredSigners(sg_tx) \subseteq sg_supplied
    /\ sg_call.op = "partial_sign"
    /\ sg_call.public_keys = <<sg_tx.message.account_keys[1]>>
    /\ IsZeroSignature(sg_prev.signatures[1])
    /\ ~IsZeroSignature(sg_prev.signatures[2])
    /\ sg_tx.signatures
           = Transaction_sign(sg_tx, SignerKeysInOrder(sg_tx)).tx.signatures

=============================================================================
